---- MODULE Spec2Model ----
(***************************************************************************)
(* A model of flask_restless/search.py: the translation of a client's      *)
(* filter objects into a SQLAlchemy query (Filter.from_dictionary,         *)
(* QueryBuilder._create_filter, QueryBuilder._create_operation,            *)
(* _sub_operator, QueryBuilder.create_query), evaluated against a small    *)
(* database of the models of the test suite.                               *)
(***************************************************************************)
EXTENDS Integers, Sequences, FiniteSets, TLC

VARIABLES
    pc,        \* where create_query stands: idle, parse, compile, filter, order,
               \* group, returned, raised
    mclass,    \* the `model` argument: the model class queried
    filters,   \* the `filters` argument: a list of filter dictionaries
    sort,      \* the `sort` argument: None or a list of (symbol, field_name)
    group_by,  \* the `group_by` argument: None or a list of field names
    ignore_order_by,  \* the `_ignore_order_by` argument
    parsed,    \* the Filter objects of line 370
    compiled,  \* the SQL expressions of line 372
    query,     \* the query object built so far
    raised,    \* the exception create_query raised, or None
    single,    \* the `single` argument of search
    result,    \* what search returned: the query, or the one entity
    inv,       \* concurrent calls of search: the arguments and locals of each
    registry,  \* the module's OPERATORS dictionary, shared by all calls
    metadata   \* the attributes of the model classes, shared by all calls

vars == <<pc, mclass, filters, sort, group_by, ignore_order_by, parsed, compiled,
          query, raised, single, result>>
\* the state of the concurrent calls
cvars == <<inv, registry, metadata>>

(***************************************************************************)
(* Bounds of the model.                                                    *)
(***************************************************************************)
\* largest integer literal a client sends as `val`
MaxInt == 2
\* largest number of dictionaries (leaves and junctions) in one filter object
MaxNodes == 3

(***************************************************************************)
(* Python values.  A value is a record whose field t is its Python type;   *)
(* the other field, named after the type, is what it holds.                *)
(***************************************************************************)
\* Python's None where a string is expected (dict.get of a missing key)
None == "<None>"
\* Python's None as an operator argument
NULL == [t |-> "null"]
IntV(n) == [t |-> "int", int |-> n]
StrV(s) == [t |-> "str", str |-> s]
DateV(n) == [t |-> "date", date |-> n]
ListV(s) == [t |-> "list", list |-> s]
DictV(d) == [t |-> "dict", dict |-> d]
\* a column of a model on the right-hand side: getattr(model, otherfield)
ColV(m, a) == [t |-> "col", col |-> <<m, a>>]
\* func.current_timestamp()
NowV == [t |-> "now"]

\* dictionary.get(key): the value, or None
Get(d, key, default) == IF key \in DOMAIN d THEN d[key] ELSE default

\* the outcome of a call: a returned value or a raised exception
Ok(x) == [st |-> "ok", val |-> x]
Raise(kind) == [st |-> "raise", exc |-> kind]
IsOk(r) == r.st = "ok"

(***************************************************************************)
(* The exceptions of the module, by Python type, and the error kinds the   *)
(* documentation of _create_operation gives them.                          *)
(***************************************************************************)
KeyError == "KeyError"
TypeError == "TypeError"
AttributeError == "AttributeError"
ValueError == "ValueError"
ComparisonToNull == "ComparisonToNull"
InvalidRequestError == "InvalidRequestError"
DateTimeParseError == "DateTimeParseError"
NoResultFound == "NoResultFound"
MultipleResultsFound == "MultipleResultsFound"
UnknownOperatorError == KeyError
ArityMismatchError == TypeError
UnknownFieldError == AttributeError

(***************************************************************************)
(* The models of the test suite and their attributes.                      *)
(***************************************************************************)
Person == "Person"
Comment == "Comment"
\* the models of TestAssociationProxy
Article == "Article"
ArticleTag == "ArticleTag"
Tag == "Tag"
Column(type) == [kind |-> "column", type |-> type, target |-> None]
\* relationship(): InstrumentedAttribute whose property has a mapper
Relationship(many, target) ==
    [kind |-> IF many THEN "to_many" ELSE "to_one", type |-> None, target |-> target]
\* association_proxy(): an AssociationProxy to a collection of `target`
AssociationProxy(target) == [kind |-> "proxy", type |-> None, target |-> target]
Schema ==
    Person :> [id |-> Column("int"), name |-> Column("str"), age |-> Column("int"),
               birthday |-> Column("date"),
               comments |-> Relationship(TRUE, Comment)]
    @@
    Comment :> [id |-> Column("int"), content |-> Column("str"),
                author_id |-> Column("int"),
                author |-> Relationship(FALSE, Person)]
    @@
    Article :> [id |-> Column("int"), tags |-> AssociationProxy(Tag),
                articletags |-> Relationship(TRUE, ArticleTag)]
    @@
    ArticleTag :> [article_id |-> Column("int"), article |-> Relationship(FALSE, Article),
                   tag_id |-> Column("int"), tag |-> Relationship(FALSE, Tag),
                   id |-> Column("int")]
    @@
    Tag :> [id |-> Column("int"), name |-> Column("str")]

\* hasattr(model, name)
HasAttr(model, name) == name \in DOMAIN Schema[model]
\* the attribute leads to rows of another model: a relationship or a proxy
IsRelation(model, name) == Schema[model][name].kind \in {"to_one", "to_many", "proxy"}

(***************************************************************************)
(* The rows of the database the queries are evaluated against.             *)
(***************************************************************************)
Persons ==
    { [id |-> IntV(1), name |-> StrV("a"), age |-> IntV(1), birthday |-> DateV(1)],
      [id |-> IntV(2), name |-> StrV("ab"), age |-> IntV(2), birthday |-> NULL],
      [id |-> IntV(3), name |-> NULL, age |-> IntV(0), birthday |-> DateV(2)],
      [id |-> IntV(4), name |-> StrV("B"), age |-> NULL, birthday |-> DateV(1)] }
Comments ==
    { [id |-> IntV(1), content |-> StrV("a"), author_id |-> IntV(1)],
      [id |-> IntV(2), content |-> StrV("ab"), author_id |-> IntV(1)],
      [id |-> IntV(3), content |-> StrV("a"), author_id |-> IntV(2)],
      [id |-> IntV(4), content |-> NULL, author_id |-> IntV(4)],
      [id |-> IntV(5), content |-> StrV("B"), author_id |-> NULL] }
\* test_any of TestAssociationProxy: three articles with two tags each, and
\* an article without tags
Articles == {[id |-> IntV(n)] : n \in 1..4}
Tags ==
    { [id |-> IntV(1), name |-> StrV("a")],
      [id |-> IntV(2), name |-> StrV("ab")],
      [id |-> IntV(3), name |-> StrV("B")] }
ArticleTags ==
    {[article_id |-> IntV(l[1]), tag_id |-> IntV(l[2]), id |-> NULL] :
        l \in {<<1, 1>>, <<1, 2>>, <<2, 2>>, <<2, 3>>, <<3, 3>>, <<3, 1>>}}
Rows(model) ==
    CASE model = Person -> Persons
      [] model = Comment -> Comments
      [] model = Article -> Articles
      [] model = ArticleTag -> ArticleTags
      [] model = Tag -> Tags

\* the rows a relationship attribute of `row` leads to
Related(model, attr, row) ==
    IF model = Person /\ attr = "comments"
    THEN {c \in Comments : c.author_id = row.id}
    ELSE IF model = Comment /\ attr = "author"
    THEN {p \in Persons : p.id = row.author_id}
    ELSE IF model = Article /\ attr = "articletags"
    THEN {l \in ArticleTags : l.article_id = row.id}
    ELSE IF model = Article /\ attr = "tags"
    THEN {g \in Tags : \E l \in ArticleTags : l.article_id = row.id /\ l.tag_id = g.id}
    ELSE IF model = ArticleTag /\ attr = "article"
    THEN {a \in Articles : a.id = row.article_id}
    ELSE IF model = ArticleTag /\ attr = "tag"
    THEN {g \in Tags : g.id = row.tag_id}
    ELSE {}

(***************************************************************************)
(* Strings: their characters (for LIKE) and their collation order.         *)
(***************************************************************************)
Chars(s) ==
    CASE s = "" -> <<>>
      [] s = "a" -> <<"a">>
      [] s = "ab" -> <<"a", "b">>
      [] s = "B" -> <<"B">>
      [] s = "%b" -> <<"%", "b">>
      [] s = "_" -> <<"_">>
      [] OTHER -> <<s>>
Lower(c) == IF c = "B" THEN "b" ELSE c
LowerSeq(s) == [i \in DOMAIN s |-> Lower(s[i])]
StrOrder == <<"", "%b", "1900-01-02", "1900-01-03", "2nd Jan 1900", "B",
              "CURRENT_TIMESTAMP", "_", "a", "ab", "bogus">>
StrRank(s) == CHOOSE i \in DOMAIN StrOrder : StrOrder[i] = s

RECURSIVE LikeSeq(_, _)
\* SQL LIKE: % matches any run of characters, _ any one character
LikeSeq(s, p) ==
    IF p = <<>> THEN s = <<>>
    ELSE IF Head(p) = "%"
         THEN LikeSeq(s, Tail(p)) \/ (s # <<>> /\ LikeSeq(Tail(s), p))
         ELSE /\ s # <<>>
              /\ (Head(p) = "_" \/ Head(p) = Head(s))
              /\ LikeSeq(Tail(s), Tail(p))

(***************************************************************************)
(* helpers.string_to_datetime: the coercion of a filter's `val`.           *)
(***************************************************************************)
\* the permissive date parser, on the strings of the model: 0 is a failure
ParseDatetime(s) ==
    CASE s = "1900-01-02" -> 1
      [] s = "2nd Jan 1900" -> 1
      [] s = "1900-01-03" -> 2
      [] OTHER -> 0
IsTemporal(model, fieldname) ==
    /\ fieldname # None
    /\ HasAttr(model, fieldname)
    /\ Schema[model][fieldname].type = "date"
string_to_datetime(model, fieldname, value) ==
    IF value.t = "str" /\ IsTemporal(model, fieldname)
    THEN IF value.str = "" THEN Ok(NULL)
         ELSE IF value.str = "CURRENT_TIMESTAMP" THEN Ok(NowV)
         ELSE IF ParseDatetime(value.str) = 0 THEN Raise(DateTimeParseError)
         ELSE Ok(DateV(ParseDatetime(value.str)))
    ELSE Ok(value)

(***************************************************************************)
(* SQL expressions, as the SQLAlchemy operators build them, and their      *)
(* three-valued evaluation on a row: "T", "F", "N" (SQL NULL), and "E" for *)
(* an and_()/or_() of no clauses, which renders as no criterion at all.    *)
(***************************************************************************)
\* f <fn> a, where f is <<model, attribute>>
Cmp(fn, f, a) == [k |-> "cmp", fn |-> fn, f |-> f, a |-> a]
\* ~x
Not(x) == [k |-> "not", x |-> x]
\* f.has(sub), f.any(sub)
Exists(k, f, sub) == [k |-> k, f |-> f, sub |-> sub]
\* and_(clauses), or_(clauses)
and_(clauses) == [k |-> "and", cl |-> clauses]
or_(clauses) == [k |-> "or", cl |-> clauses]

\* the sort key of a non-null value: integers, then text, then dates
SortKey(x) ==
    CASE x.t = "int" -> <<1, x.int>>
      [] x.t = "str" -> <<2, StrRank(x.str)>>
      [] x.t = "date" -> <<3, x.date>>
      [] x.t = "now" -> <<3, 1000>>
Less(x, y) ==
    \/ SortKey(x)[1] < SortKey(y)[1]
    \/ SortKey(x)[1] = SortKey(y)[1] /\ SortKey(x)[2] < SortKey(y)[2]
Bool3(b) == IF b THEN "T" ELSE "F"
Not3(x) == CASE x = "T" -> "F" [] x = "F" -> "T" [] OTHER -> x

\* a comparison of two SQL values, neither of them the literal None
Compare(fn, x, y) ==
    IF x.t = "null" \/ y.t = "null" THEN "N"
    ELSE CASE fn = "eq" -> Bool3(x = y)
           [] fn = "ne" -> Bool3(x # y)
           [] fn = "gt" -> Bool3(Less(y, x))
           [] fn = "lt" -> Bool3(Less(x, y))
           [] fn = "ge" -> Bool3(~Less(x, y))
           [] fn = "le" -> Bool3(~Less(y, x))
           [] fn = "like" ->
                Bool3(x.t = "str" /\ y.t = "str" /\ LikeSeq(Chars(x.str), Chars(y.str)))
           [] fn = "ilike" ->
                Bool3(x.t = "str" /\ y.t = "str"
                      /\ LikeSeq(LowerSeq(Chars(x.str)), LowerSeq(Chars(y.str))))

\* f <fn> a on the columns of one row
EvalCmp(fn, f, a, row) ==
    LET model == f[1]
        attr == f[2]
    IN  IF IsRelation(model, attr)
        THEN \* relationship == None: no related row; != None: some related row
             CASE fn = "eq" /\ a.t = "null" -> Bool3(Related(model, attr, row) = {})
               [] fn = "ne" /\ a.t = "null" -> Bool3(Related(model, attr, row) # {})
        ELSE LET x == row[attr] IN
             CASE a.t = "null" ->
                    \* column == None renders IS NULL, column != None IS NOT NULL
                    CASE fn = "eq" -> Bool3(x.t = "null")
                      [] fn = "ne" -> Bool3(x.t # "null")
                      [] OTHER -> "N"
               [] a.t = "col" -> Compare(fn, x, row[a.col[2]])
               [] a.t = "list" /\ fn = "in" ->
                    IF x.t = "null" THEN "N"
                    ELSE Bool3(\E i \in DOMAIN a.list : a.list[i] = x)
               [] a.t \in {"int", "str", "date", "now"} -> Compare(fn, x, a)

RECURSIVE Fold3(_, _, _)
\* the clauses of a junction joined by AND (unit "T") or OR (unit "F");
\* a clause that renders as nothing ("E") is left out
Fold3(k, vals, acc) ==
    IF vals = <<>> THEN acc
    ELSE LET v == Head(vals)
             next ==
               CASE v = "E" -> acc
                 [] acc = "E" -> v
                 [] k = "and" ->
                      IF acc = "F" \/ v = "F" THEN "F"
                      ELSE IF acc = "N" \/ v = "N" THEN "N" ELSE "T"
                 [] k = "or" ->
                      IF acc = "T" \/ v = "T" THEN "T"
                      ELSE IF acc = "N" \/ v = "N" THEN "N" ELSE "F"
         IN  Fold3(k, Tail(vals), next)

RECURSIVE Eval(_, _)
Eval(x, row) ==
    CASE x.k = "cmp" -> EvalCmp(x.fn, x.f, x.a, row)
      [] x.k = "not" -> Not3(Eval(x.x, row))
      [] x.k \in {"has", "any"} ->
           Bool3(\E r \in Related(x.f[1], x.f[2], row) : Eval(x.sub, r) \in {"T", "E"})
      [] x.k \in {"and", "or"} ->
           Fold3(x.k, [i \in DOMAIN x.cl |-> Eval(x.cl[i], row)], "E")

\* the rows of `model` a WHERE clause of these criteria selects
Matches(model, criteria) ==
    {row \in Rows(model) :
        \A i \in DOMAIN criteria : Eval(criteria[i], row) \in {"T", "E"}}

(***************************************************************************)
(* OPERATORS: operator name -> lambda.  A lambda is its number of          *)
(* arguments and its body.                                                 *)
(***************************************************************************)
Lambda(numargs, body) == [numargs |-> numargs, body |-> body]
OPERATORS ==
    "is_null" :> Lambda(1, "f == None")
    @@ "is_not_null" :> Lambda(1, "f != None")
    @@ "==" :> Lambda(2, "f == a")
    @@ "eq" :> Lambda(2, "f == a")
    @@ "equals" :> Lambda(2, "f == a")
    @@ "equal_to" :> Lambda(2, "f == a")
    @@ "!=" :> Lambda(2, "f != a")
    @@ "ne" :> Lambda(2, "f != a")
    @@ "neq" :> Lambda(2, "f != a")
    @@ "not_equal_to" :> Lambda(2, "f != a")
    @@ "does_not_equal" :> Lambda(2, "f != a")
    @@ ">" :> Lambda(2, "f > a")
    @@ "gt" :> Lambda(2, "f > a")
    @@ "<" :> Lambda(2, "f < a")
    @@ "lt" :> Lambda(2, "f < a")
    @@ ">=" :> Lambda(2, "f >= a")
    @@ "ge" :> Lambda(2, "f >= a")
    @@ "gte" :> Lambda(2, "f >= a")
    @@ "geq" :> Lambda(2, "f >= a")
    @@ "<=" :> Lambda(2, "f <= a")
    @@ "le" :> Lambda(2, "f <= a")
    @@ "lte" :> Lambda(2, "f <= a")
    @@ "leq" :> Lambda(2, "f <= a")
    @@ "ilike" :> Lambda(2, "f.ilike(a)")
    @@ "like" :> Lambda(2, "f.like(a)")
    @@ "in" :> Lambda(2, "f.in_(a)")
    @@ "not_in" :> Lambda(2, "~f.in_(a)")
    @@ "has" :> Lambda(3, "f.has(_sub_operator(f, a, fn))")
    @@ "any" :> Lambda(3, "f.any(_sub_operator(f, a, fn))")

\* a slip in the table: 'geq' given the body of '>'
LookupOperator_geq(operator) ==
    IF operator = "geq" THEN Ok(OPERATORS[">"])
    ELSE IF operator \in DOMAIN OPERATORS THEN Ok(OPERATORS[operator]) ELSE Raise(KeyError)

\* OPERATORS.get(operator, OPERATORS['eq']): an unknown name taken for eq
LookupOperator_default(operator) ==
    IF operator \in DOMAIN OPERATORS THEN Ok(OPERATORS[operator]) ELSE Ok(OPERATORS["eq"])

\* OPERATORS[operator]: the lambda, or a KeyError
LookupOperator(operator) ==
    IF operator \in DOMAIN OPERATORS THEN Ok(OPERATORS[operator]) ELSE Raise(KeyError)

\* str.split('__') on the field names of the model
SplitName(name) ==
    CASE name = "comments__content" -> <<"comments", "content">>
      [] name = "content__comments" -> <<"content", "comments">>
      [] name = "author__name" -> <<"author", "name">>
      [] name = "name__author" -> <<"name", "author">>
      [] name = "foo__name" -> <<"foo", "name">>
      [] name = "tags__name" -> <<"tags", "name">>
      [] name = "a__b__c" -> <<"a", "b", "c">>
      [] OTHER -> <<name>>
\* '__' in name
HasDelimiter(name) == Len(SplitName(name)) > 1

RECURSIVE CallOperator(_, _, _, _)
RECURSIVE _sub_operator(_, _, _)
RECURSIVE _create_operation(_, _, _, _, _)

\* opfunc(field), opfunc(field, argument), opfunc(field, argument, fieldname)
CallOperator(body, f, a, fn) ==
    CASE body = "f == None" -> Ok(Cmp("eq", f, NULL))
      [] body = "f != None" -> Ok(Cmp("ne", f, NULL))
      [] body = "f == a" -> Ok(Cmp("eq", f, a))
      [] body = "f != a" -> Ok(Cmp("ne", f, a))
      [] body = "f > a" -> Ok(Cmp("gt", f, a))
      [] body = "f < a" -> Ok(Cmp("lt", f, a))
      [] body = "f >= a" -> Ok(Cmp("ge", f, a))
      [] body = "f <= a" -> Ok(Cmp("le", f, a))
      [] body = "f.ilike(a)" -> Ok(Cmp("ilike", f, a))
      [] body = "f.like(a)" -> Ok(Cmp("like", f, a))
      [] body = "f.in_(a)" -> Ok(Cmp("in", f, a))
      [] body = "~f.in_(a)" -> Ok(Not(Cmp("in", f, a)))
      [] body = "f.has(_sub_operator(f, a, fn))" ->
           LET sub == _sub_operator(f, a, fn) IN
           \* a column attribute has no has()
           IF ~IsRelation(f[1], f[2]) THEN Raise(AttributeError)
           ELSE IF ~IsOk(sub) THEN sub
           \* has() is not implemented for collections
           ELSE IF Schema[f[1]][f[2]].kind # "to_one"
                THEN Raise(InvalidRequestError)
                ELSE Ok(Exists("has", f, sub.val))
      [] body = "f.any(_sub_operator(f, a, fn))" ->
           LET sub == _sub_operator(f, a, fn) IN
           \* a column attribute has no any()
           IF ~IsRelation(f[1], f[2]) THEN Raise(AttributeError)
           ELSE IF ~IsOk(sub) THEN sub
           \* any() is not implemented for scalars
           ELSE IF Schema[f[1]][f[2]].kind \notin {"to_many", "proxy"}
                THEN Raise(InvalidRequestError)
                ELSE Ok(Exists("any", f, sub.val))

\* _sub_operator with the model of the relationship in the place of the
\* model it leads to
_sub_operator_owner(f, argument, fieldname) ==
    IF ~IsRelation(f[1], f[2])
    THEN Raise(AttributeError)
    ELSE
    LET submodel == f[1] IN
    IF argument.t = "dict"
    THEN LET d == argument.dict IN
         IF "name" \notin DOMAIN d \/ "op" \notin DOMAIN d THEN Raise(KeyError)
         ELSE LET parts == SplitName(d.name) IN
              IF HasDelimiter(d.name) /\ Len(parts) # 2 THEN Raise(ValueError)
              ELSE _create_operation(submodel,
                                     parts[1],
                                     d.op,
                                     Get(d, "val", NULL),
                                     IF HasDelimiter(d.name) THEN parts[2] ELSE None)
    ELSE IF ~HasAttr(submodel, fieldname) THEN Raise(AttributeError)
         ELSE Ok(Cmp("eq", <<submodel, fieldname>>, argument))

\* _sub_operator that reads a junction dictionary as its first child
_sub_operator_junction(f, argument, fieldname) ==
    IF ~IsRelation(f[1], f[2])
    THEN Raise(AttributeError)
    ELSE
    LET submodel == Schema[f[1]][f[2]].target IN
    IF argument.t = "dict"
    THEN LET d == IF "or" \in DOMAIN argument.dict THEN argument.dict["or"][1]
                  ELSE IF "and" \in DOMAIN argument.dict THEN argument.dict["and"][1]
                  ELSE argument.dict
         IN
         IF "name" \notin DOMAIN d \/ "op" \notin DOMAIN d THEN Raise(KeyError)
         ELSE LET parts == SplitName(d.name) IN
              IF HasDelimiter(d.name) /\ Len(parts) # 2 THEN Raise(ValueError)
              ELSE _create_operation(submodel,
                                     parts[1],
                                     d.op,
                                     Get(d, "val", NULL),
                                     IF HasDelimiter(d.name) THEN parts[2] ELSE None)
    ELSE IF ~HasAttr(submodel, fieldname) THEN Raise(AttributeError)
         ELSE Ok(Cmp("eq", <<submodel, fieldname>>, argument))

_sub_operator(f, argument, fieldname) ==
    IF ~IsRelation(f[1], f[2])
    THEN \* a column is an InstrumentedAttribute whose property has no mapper
         Raise(AttributeError)
    ELSE
    \* model.property.mapper.class_, get_related_association_proxy_model(model)
    LET submodel == Schema[f[1]][f[2]].target IN
    IF argument.t = "dict"
    THEN LET d == argument.dict IN
         IF "name" \notin DOMAIN d \/ "op" \notin DOMAIN d THEN Raise(KeyError)
         ELSE LET parts == SplitName(d.name) IN
              IF HasDelimiter(d.name) /\ Len(parts) # 2 THEN Raise(ValueError)
              ELSE _create_operation(submodel,
                                     parts[1],
                                     d.op,
                                     Get(d, "val", NULL),
                                     IF HasDelimiter(d.name) THEN parts[2] ELSE None)
    ELSE \* legacy has/any with implicit eq operator
         IF ~HasAttr(submodel, fieldname) THEN Raise(AttributeError)
         ELSE Ok(Cmp("eq", <<submodel, fieldname>>, argument))

\* _create_operation without its guard against a None argument
_create_operation_noguard(model, fieldname, operator, argument, relation) ==
    LET opfunc == LookupOperator(operator) IN
    IF ~IsOk(opfunc) THEN opfunc
    ELSE
    LET attr == IF relation \notin {None, ""} THEN relation ELSE fieldname IN
    IF attr = None THEN Raise(TypeError)
    ELSE IF ~HasAttr(model, attr) THEN Raise(AttributeError)
    ELSE CallOperator(opfunc.val.body, <<model, attr>>, argument, fieldname)

\* _create_operation that hands the operator `relation or fieldname` where
\* the code hands it `fieldname`
_create_operation_attr(model, fieldname, operator, argument, relation) ==
    LET opfunc == LookupOperator(operator) IN
    IF ~IsOk(opfunc) THEN opfunc
    ELSE
    LET numargs == opfunc.val.numargs
        attr == IF relation \notin {None, ""} THEN relation ELSE fieldname
    IN
    IF attr = None THEN Raise(TypeError)
    ELSE IF ~HasAttr(model, attr) THEN Raise(AttributeError)
    ELSE IF numargs = 1 THEN CallOperator(opfunc.val.body, <<model, attr>>, argument, attr)
    ELSE IF argument.t = "null" THEN Raise(ComparisonToNull)
    ELSE CallOperator(opfunc.val.body, <<model, attr>>, argument, attr)

\* _create_operation with the attribute looked up before the operator
_create_operation_fieldfirst(model, fieldname, operator, argument, relation) ==
    LET attr == IF relation \notin {None, ""} THEN relation ELSE fieldname IN
    IF attr = None THEN Raise(TypeError)
    ELSE IF ~HasAttr(model, attr) THEN Raise(AttributeError)
    ELSE
    LET opfunc == LookupOperator(operator) IN
    IF ~IsOk(opfunc) THEN opfunc
    ELSE IF opfunc.val.numargs = 1
    THEN CallOperator(opfunc.val.body, <<model, attr>>, argument, fieldname)
    ELSE IF argument.t = "null" THEN Raise(ComparisonToNull)
    ELSE CallOperator(opfunc.val.body, <<model, attr>>, argument, fieldname)

\* _create_operation with the null guard for the equality operators only
_create_operation_eqguard(model, fieldname, operator, argument, relation) ==
    LET opfunc == LookupOperator(operator) IN
    IF ~IsOk(opfunc) THEN opfunc
    ELSE
    LET numargs == opfunc.val.numargs
        attr == IF relation \notin {None, ""} THEN relation ELSE fieldname
    IN
    IF attr = None THEN Raise(TypeError)
    ELSE IF ~HasAttr(model, attr) THEN Raise(AttributeError)
    ELSE IF numargs = 1 THEN CallOperator(opfunc.val.body, <<model, attr>>, argument, fieldname)
    ELSE IF argument.t = "null" /\ operator \in {"==", "eq", "equals", "equal_to"}
    THEN Raise(ComparisonToNull)
    ELSE CallOperator(opfunc.val.body, <<model, attr>>, argument, fieldname)

\* QueryBuilder._create_operation: lines 284-301
_create_operation(model, fieldname, operator, argument, relation) ==
    LET opfunc == LookupOperator(operator) IN
    IF ~IsOk(opfunc) THEN opfunc
    ELSE
    LET numargs == opfunc.val.numargs
        \* relation or fieldname
        attr == IF relation \notin {None, ""} THEN relation ELSE fieldname
    IN
    IF attr = None THEN Raise(TypeError)
    ELSE IF ~HasAttr(model, attr) THEN Raise(AttributeError)
    ELSE IF numargs = 1 THEN CallOperator(opfunc.val.body, <<model, attr>>, argument, fieldname)
    ELSE IF argument.t = "null" THEN Raise(ComparisonToNull)
    ELSE CallOperator(opfunc.val.body, <<model, attr>>, argument, fieldname)

(***************************************************************************)
(* Filter, JunctionFilter and Filter.from_dictionary.                      *)
(***************************************************************************)
Filter(fieldname, operator, argument, otherfield) ==
    [cls |-> "Filter", fieldname |-> fieldname, operator |-> operator,
     argument |-> argument, otherfield |-> otherfield]
ConjunctionFilter(subfilters) == [cls |-> "ConjunctionFilter", subfilters |-> subfilters]
DisjunctionFilter(subfilters) == [cls |-> "DisjunctionFilter", subfilters |-> subfilters]
IsJunctionFilter(filt) == filt.cls \in {"ConjunctionFilter", "DisjunctionFilter"}

\* a list comprehension that leaves out the calls that raise
Comprehension_valid(results) ==
    LET oks == SelectSeq(results, IsOk) IN
    Ok([i \in DOMAIN oks |-> oks[i].val])
\* a list comprehension over calls that may raise: the list of the values,
\* or the exception of the first call that raises
Comprehension(results) ==
    IF \E i \in DOMAIN results : ~IsOk(results[i])
    THEN results[CHOOSE i \in DOMAIN results :
                    /\ ~IsOk(results[i])
                    /\ \A j \in 1..(i - 1) : IsOk(results[j])]
    ELSE Ok([i \in DOMAIN results |-> results[i].val])

RECURSIVE from_dictionary(_, _)
\* from_dictionary building a ConjunctionFilter for "or" as for "and"
from_dictionary_and(model, dictionary) ==
    IF "or" \notin DOMAIN dictionary /\ "and" \notin DOMAIN dictionary
    THEN LET fieldname == Get(dictionary, "name", None)
             argument == string_to_datetime(model, fieldname,
                                            Get(dictionary, "val", NULL))
         IN  IF ~IsOk(argument) THEN argument
             ELSE Ok(Filter(fieldname, Get(dictionary, "op", None), argument.val,
                            Get(dictionary, "field", None)))
    ELSE LET subfilters == IF "or" \in DOMAIN dictionary
                           THEN dictionary["or"] ELSE dictionary["and"]
             subs == Comprehension([i \in DOMAIN subfilters |->
                                       from_dictionary(model, subfilters[i])])
         IN  IF ~IsOk(subs) THEN subs ELSE Ok(ConjunctionFilter(subs.val))
\* from_dictionary with dictionary.get('op', 'eq'): a missing op taken for eq
from_dictionary_defaultop(model, dictionary) ==
    IF "or" \notin DOMAIN dictionary /\ "and" \notin DOMAIN dictionary
    THEN LET fieldname == Get(dictionary, "name", None)
             argument == string_to_datetime(model, fieldname,
                                            Get(dictionary, "val", NULL))
         IN  IF ~IsOk(argument) THEN argument
             ELSE Ok(Filter(fieldname, Get(dictionary, "op", "eq"), argument.val,
                            Get(dictionary, "field", None)))
    ELSE LET subfilters == IF "or" \in DOMAIN dictionary
                           THEN dictionary["or"] ELSE dictionary["and"]
             subs == Comprehension([i \in DOMAIN subfilters |->
                                       from_dictionary(model, subfilters[i])])
         IN  IF ~IsOk(subs) THEN subs
             ELSE IF "or" \in DOMAIN dictionary THEN Ok(DisjunctionFilter(subs.val))
             ELSE Ok(ConjunctionFilter(subs.val))

from_dictionary(model, dictionary) ==
    IF "or" \notin DOMAIN dictionary /\ "and" \notin DOMAIN dictionary
    THEN LET fieldname == Get(dictionary, "name", None)
             operator == Get(dictionary, "op", None)
             otherfield == Get(dictionary, "field", None)
             argument == string_to_datetime(model, fieldname,
                                            Get(dictionary, "val", NULL))
         IN  IF ~IsOk(argument) THEN argument
             ELSE Ok(Filter(fieldname, operator, argument.val, otherfield))
    ELSE IF "or" \in DOMAIN dictionary
    THEN LET subfilters == dictionary["or"]
             subs == Comprehension([i \in DOMAIN subfilters |->
                                       from_dictionary(model, subfilters[i])])
         IN  IF ~IsOk(subs) THEN subs ELSE Ok(DisjunctionFilter(subs.val))
    ELSE LET subfilters == dictionary["and"]
             subs == Comprehension([i \in DOMAIN subfilters |->
                                       from_dictionary(model, subfilters[i])])
         IN  IF ~IsOk(subs) THEN subs ELSE Ok(ConjunctionFilter(subs.val))

(***************************************************************************)
(* QueryBuilder._create_filter                                             *)
(***************************************************************************)
RECURSIVE _create_filter(_, _)
\* _create_filter on a Filter that is no junction: lines 317-328
CreateLeaf(model, filt) ==
    LET name == filt.fieldname
        parts == SplitName(name)
    IN  \* '__' in None
        IF name = None THEN Raise(TypeError)
        ELSE IF HasDelimiter(name) /\ Len(parts) # 2 THEN Raise(ValueError)
        ELSE
        LET relation == IF HasDelimiter(name) THEN parts[1] ELSE None
            fname == IF HasDelimiter(name) THEN parts[2] ELSE name
        IN  IF filt.otherfield \notin {None, ""}
            THEN IF ~HasAttr(model, filt.otherfield) THEN Raise(AttributeError)
                 ELSE _create_operation(model, fname, filt.operator,
                                        ColV(model, filt.otherfield), relation)
            ELSE _create_operation(model, fname, filt.operator,
                                   filt.argument, relation)

\* _create_filter that never looks at filt.otherfield
_create_filter_nofield(model, filt) ==
    IF ~IsJunctionFilter(filt) THEN CreateLeaf(model, [filt EXCEPT !.otherfield = None])
    ELSE LET subs == Comprehension([i \in DOMAIN filt.subfilters |->
                                       _create_filter(model, filt.subfilters[i])])
         IN  IF ~IsOk(subs) THEN subs
             ELSE IF filt.cls = "ConjunctionFilter" THEN Ok(and_(subs.val))
             ELSE Ok(or_(subs.val))

\* _create_filter that joins the clauses of every junction with and_
_create_filter_and(model, filt) ==
    IF ~IsJunctionFilter(filt) THEN CreateLeaf(model, filt)
    ELSE LET subs == Comprehension([i \in DOMAIN filt.subfilters |->
                                       _create_filter(model, filt.subfilters[i])])
         IN  IF ~IsOk(subs) THEN subs ELSE Ok(and_(subs.val))

_create_filter(model, filt) ==
    IF ~IsJunctionFilter(filt) THEN CreateLeaf(model, filt)
    ELSE LET subs == Comprehension([i \in DOMAIN filt.subfilters |->
                                       _create_filter(model, filt.subfilters[i])])
         IN  IF ~IsOk(subs) THEN subs
             ELSE IF filt.cls = "ConjunctionFilter" THEN Ok(and_(subs.val))
             ELSE Ok(or_(subs.val))

(***************************************************************************)
(* The requests of the model: the filter dictionaries a client sends.      *)
(***************************************************************************)
\* a key a dictionary does not have
Absent == "<absent>"
AbsentV == [t |-> "absent"]
NoKeys == [key \in {} |-> key]
Entry(key, str) == IF str = Absent THEN NoKeys ELSE key :> str
EntryV(key, value) == IF value.t = "absent" THEN NoKeys ELSE key :> value
\* the leaf dictionary {"name": n, "op": o, "val": v, "field": f}
Leaf(n, o, v, f) == Entry("name", n) @@ Entry("op", o) @@ EntryV("val", v) @@ Entry("field", f)

UnaryNames == {"is_null", "is_not_null"}
SubfilterNames == {"has", "any"}
RelationNames == {"comments", "author", "comments__content", "author__name"}

\* the sub-filter dictionaries given as `val` of has/any
SubSpecs ==
    { Leaf("content", "eq", StrV("a"), Absent),
      Leaf("content", "bogus", StrV("a"), Absent),
      Leaf("foo", "eq", StrV("a"), Absent),
      Leaf("content", "eq", AbsentV, Absent),
      Leaf("name", "equals", StrV("a"), Absent),
      Leaf("author", "has", DictV(Leaf("name", "eq", StrV("a"), Absent)), Absent),
      Leaf("content", "like", StrV("%b"), Absent),
      \* junction dictionaries
      "and" :> <<Leaf("content", "eq", StrV("a"), Absent)>>,
      "or" :> <<Leaf("content", "eq", StrV("a"), Absent),
                Leaf("content", "eq", StrV("B"), Absent)>>,
      "and" :> <<Leaf("name", "eq", StrV("a"), Absent)>>,
      \* names with a delimiter
      Leaf("comments__content", "any", StrV("a"), Absent),
      Leaf("content__comments", "any", StrV("a"), Absent),
      Leaf("author__name", "has", StrV("a"), Absent),
      Leaf("name__author", "has", StrV("a"), Absent) }

InputNames == {Absent, "name", "age", "birthday", "comments", "foo",
               "comments__content", "foo__name", "a__b__c"}
InputOps == {Absent, "bogus"} \cup DOMAIN OPERATORS
InputVals ==
    {AbsentV, NULL}
    \cup {IntV(n) : n \in 0..MaxInt}
    \cup {StrV(str) : str \in {"a", "B", "%b", "", "bogus", "1900-01-02", "2nd Jan 1900"}}
    \cup {ListV(<<IntV(1)>>), ListV(<<StrV("a"), StrV("B")>>)}
    \cup {DictV(d) : d \in SubSpecs}
InputFields == {Absent, "age", "name", "foo"}

\* the calls of SQLAlchemy operators whose result the model describes: lists
\* go to in_(), dictionaries to has()/any(), relationships take no comparison
Modelled(n, o, v, f) ==
    /\ v.t = "list" => o \in {"in", "not_in", Absent, "bogus"} \cup UnaryNames
    /\ o \in {"in", "not_in"} => v.t \in {"list", "null", "absent"} /\ f \in {Absent, "foo"}
    /\ v.t = "dict" => o \in SubfilterNames \cup UnaryNames \cup {Absent, "bogus"}
    /\ o \in SubfilterNames => f \in {Absent, "foo"}
    /\ n \in RelationNames => o \in SubfilterNames \cup UnaryNames \cup {Absent, "bogus"}
    /\ o \in {"like", "ilike"} => v.t \in {"str", "null", "absent"}

\* every leaf dictionary sent as a filter object of its own
LeafSpecs ==
    {Leaf(n, o, v, f) : <<n, o, v, f>> \in
        {q \in InputNames \X InputOps \X InputVals \X InputFields :
            Modelled(q[1], q[2], q[3], q[4])}}

\* the leaves that junctions are built from
JunctionLeaves ==
    { Leaf("name", "eq", StrV("a"), Absent),
      Leaf("age", "gt", IntV(0), Absent),
      Leaf("age", "<=", IntV(1), Absent),
      Leaf("name", "is_null", AbsentV, Absent),
      Leaf("age", "bogus", IntV(1), Absent),
      Leaf("foo", "eq", IntV(1), Absent),
      Leaf("name", "eq", AbsentV, Absent),
      Leaf("birthday", "eq", StrV("bogus"), Absent),
      Leaf("comments", "any", DictV(Leaf("content", "like", StrV("a"), Absent)), Absent),
      Leaf("comments", "any", DictV(Leaf("content", "bogus", StrV("a"), Absent)), Absent) }

RECURSIVE TreesOfSize(_)
RECURSIVE Forests(_)
\* the sequences of filter dictionaries with `total` dictionaries altogether
Forests(total) ==
    IF total = 0 THEN {<<>>}
    ELSE UNION {{<<h>> \o rest : h \in TreesOfSize(k), rest \in Forests(total - k)} :
                    k \in 1..total}
\* the filter dictionaries made of exactly n dictionaries
TreesOfSize(n) ==
    IF n = 1 THEN JunctionLeaves \cup {"and" :> <<>>, "or" :> <<>>}
    ELSE {"and" :> c : c \in Forests(n - 1)} \cup {"or" :> c : c \in Forests(n - 1)}
JunctionSpecs == UNION {TreesOfSize(n) : n \in 2..MaxNodes} \cup {"and" :> <<>>, "or" :> <<>>}

\* dictionaries with both keys, at the top level and as a child
BothKeys ==
    LET lists == {<<>>} \cup {<<x>> : x \in JunctionLeaves}
        both == {("and" :> a) @@ ("or" :> o) : a \in lists, o \in lists}
    IN  both \cup {"and" :> <<b>> : b \in both}

\* junctions of a junction of two leaves and a leaf
NestedLeaves ==
    { Leaf("name", "eq", StrV("a"), Absent),
      Leaf("age", "gt", IntV(0), Absent),
      Leaf("age", "<=", IntV(1), Absent),
      Leaf("name", "is_null", AbsentV, Absent) }
NestedSpecs ==
    {outer :> <<inner :> <<a, b>>, c>> :
        outer \in {"and", "or"}, inner \in {"and", "or"},
        a \in NestedLeaves, b \in NestedLeaves, c \in NestedLeaves}

FilterLists ==
    {<<>>}
    \cup {<<d>> : d \in LeafSpecs \cup JunctionSpecs \cup NestedSpecs \cup BothKeys}
    \cup {<<a, b>> : a \in JunctionLeaves, b \in JunctionLeaves}

\* the requests on Comment: its to-one relationship `author`
CommentLeafSpecs ==
    {Leaf(n, o, v, Absent) : <<n, o, v>> \in
        {q \in {"content", "author", "author__name", "foo"}
               \X {"eq", "has", "any", "is_null", "bogus"}
               \X ({AbsentV, StrV("a")} \cup {DictV(d) : d \in SubSpecs}) :
            Modelled(q[1], q[2], q[3], Absent)}}

\* the requests on Article: its association proxy `tags`
ArticleLeafSpecs ==
    {Leaf(n, o, v, Absent) : <<n, o, v>> \in
        {"tags", "tags__name", "id"}
        \X {"any", "has"}
        \X ({AbsentV, StrV("ab")}
            \cup {DictV(Leaf("name", "eq", StrV("ab"), Absent)),
                  DictV(Leaf("name", "like", StrV("%b"), Absent)),
                  DictV(Leaf("foo", "eq", StrV("ab"), Absent))})}

\* the sort and group_by arguments: None, or a list
SortSigns == {"+", "-", "", "asc"}
SortFields == {"id", "name", "foo", "comments.content", "comments.foo", "name.id",
               "foo.name", "author.name", "tag.name", "a.b.c"}
SortSpecs ==
    {NULL, ListV(<<>>)}
    \cup {ListV(<<e>>) : e \in SortSigns \X SortFields}
    \cup {ListV(<<e1, e2>>) :
            e1 \in {"+", "-"} \X {"name", "id", "comments.content", "foo"},
            e2 \in {"+", "-"} \X {"name", "id", "comments.content", "foo"}}
GroupSpecs ==
    {NULL, ListV(<<>>)}
    \cup {ListV(<<n>>) : n \in SortFields}
    \cup {ListV(<<n1, n2>>) : n1 \in {"name", "age", "comments.content", "foo"},
                              n2 \in {"name", "age", "comments.content", "foo"}}
\* the filters sent along with a sort or a group_by
SortedFilterLists ==
    { <<>>,
      <<Leaf("name", "like", StrV("a%"), Absent), Leaf("age", "gt", IntV(0), Absent)>>,
      <<Leaf("foo", "like", StrV("a%"), Absent)>> }
\* the sort and group_by arguments sent together
SortAndGroup ==
    (SortSpecs \X {NULL, ListV(<<"name">>), ListV(<<"comments.content">>), ListV(<<"foo">>)})
    \cup ({NULL, ListV(<<>>), ListV(<<<<"+", "name">>>>), ListV(<<<<"-", "comments.content">>>>),
           ListV(<<<<"+", "foo">>>>)} \X GroupSpecs)

\* the calls of create_query: model, filters, sort, group_by, _ignore_order_by;
\* filters=None, sort=None, group_by=None are its defaults
Requests ==
    {<<Person, NULL, NULL, NULL, FALSE>>}
    \cup {<<Person, ListV(fs), NULL, NULL, FALSE>> : fs \in FilterLists}
    \cup {<<Comment, ListV(<<d>>), NULL, NULL, FALSE>> : d \in CommentLeafSpecs}
    \cup {<<Article, ListV(<<d>>), NULL, NULL, FALSE>> : d \in ArticleLeafSpecs}
    \cup {<<Person, ListV(fs), sg[1], sg[2], i>> :
            fs \in SortedFilterLists, sg \in SortAndGroup, i \in BOOLEAN}
    \cup {<<m, ListV(<<>>), srt, grp, i>> :
            m \in {Comment, ArticleTag, Tag},
            srt \in {NULL, ListV(<<<<"-", "author.name">>>>), ListV(<<<<"+", "tag.name">>>>)},
            grp \in {NULL, ListV(<<"author.name">>), ListV(<<"tag.name">>)},
            i \in BOOLEAN}

\* the calls of search: those of create_query with the `single` argument;
\* single is sent with the requests that have no sort and no group_by
Searches ==
    {Append(r, FALSE) : r \in Requests}
    \cup {Append(r, TRUE) : r \in {q \in Requests : q[3] = NULL /\ q[4] = NULL}}

(***************************************************************************)
(* QueryBuilder.create_query, step by step.                                *)
(***************************************************************************)
\* one call of a method of the query: "filter", "join", "order_by" (one per
\* clause, with its direction) or "group_by", and the model or column given
QueryCall(call, model, attr, direction) ==
    [call |-> call, model |-> model, attr |-> attr, direction |-> direction]
\* no query object: create_query has not been called, or it raised
NoQuery == [model |-> None, criteria |-> <<>>, calls |-> <<>>]
\* session_query(session, model)
session_query(m) == [model |-> m, criteria |-> <<>>, calls |-> <<>>]
\* query.filter(criteria[0]): only the first criterion reaches the query
QueryFilter_first(q, criteria) ==
    [q EXCEPT !.criteria = @ \o (IF criteria = <<>> THEN <<>> ELSE <<Head(criteria)>>),
              !.calls = Append(@, QueryCall("filter", q.model, "", ""))]
\* query.filter(*criteria)
QueryFilter(q, criteria) ==
    [q EXCEPT !.criteria = @ \o criteria,
              !.calls = Append(@, QueryCall("filter", q.model, "", ""))]
\* query.join(relation_model)
QueryJoin(q, relation_model) ==
    [q EXCEPT !.calls = Append(@, QueryCall("join", relation_model, "", ""))]
\* query.order_by(field.asc()), query.order_by(field.desc())
QueryOrderBy(q, field, direction_name) ==
    [q EXCEPT !.calls = Append(@, QueryCall("order_by", field[1], field[2], direction_name))]
\* query.group_by(field)
QueryGroupBy(q, field) ==
    [q EXCEPT !.calls = Append(@, QueryCall("group_by", field[1], field[2], ""))]

\* str.split('.') on the field names of sort and group_by
SplitPath(name) ==
    CASE name = "comments.content" -> <<"comments", "content">>
      [] name = "author.name" -> <<"author", "name">>
      [] name = "comments.foo" -> <<"comments", "foo">>
      [] name = "name.id" -> <<"name", "id">>
      [] name = "foo.name" -> <<"foo", "name">>
      [] name = "tag.name" -> <<"tag", "name">>
      [] name = "a.b.c" -> <<"a", "b", "c">>
      [] OTHER -> <<name>>
\* '.' in name
HasDot(name) == Len(SplitPath(name)) > 1
\* get_related_model(model, relationname): the model the relationship leads
\* to, None when the model has no relationship of that name
get_related_model(model, relationname) ==
    IF HasAttr(model, relationname) /\ IsRelation(model, relationname)
    THEN Schema[model][relationname].target
    ELSE None
\* primary_key_names(model): the names of the primary key columns
primary_key_names(model) ==
    CASE model = ArticleTag -> <<"article_id", "tag_id">>
      [] OTHER -> <<"id">>
\* bool(x) of a list or None
Truthy(x) == x.t = "list" /\ x.list # <<>>

\* 'asc' if symbol == '+' else 'desc', with every sign but '-' taken for '+'
DirectionName_minus(symbol) == IF symbol # "-" THEN "asc" ELSE "desc"
\* direction_name = 'asc' if symbol == '+' else 'desc': line 380
DirectionName(symbol) == IF symbol = "+" THEN "asc" ELSE "desc"

\* the body of the loop over sort with the join made after the order_by
SortEntry_joinafter(model, q, symbol, field_name) ==
    LET direction_name == DirectionName(symbol)
        parts == SplitPath(field_name)
    IN  IF HasDot(field_name)
        THEN IF Len(parts) # 2 THEN Raise(ValueError)
             ELSE LET relation_model == get_related_model(model, parts[1]) IN
                  IF relation_model = None THEN Raise(AttributeError)
                  ELSE IF ~HasAttr(relation_model, parts[2]) THEN Raise(AttributeError)
                  ELSE Ok(QueryJoin(QueryOrderBy(q, <<relation_model, parts[2]>>,
                                                 direction_name), relation_model))
        ELSE IF ~HasAttr(model, field_name) THEN Raise(AttributeError)
             ELSE Ok(QueryOrderBy(q, <<model, field_name>>, direction_name))
\* the body of the loop over sort: lines 380-392
SortEntry(model, q, symbol, field_name) ==
    LET direction_name == DirectionName(symbol)
        parts == SplitPath(field_name)
    IN  IF HasDot(field_name)
        THEN IF Len(parts) # 2 THEN Raise(ValueError)
             ELSE LET relation_model == get_related_model(model, parts[1]) IN
                  \* getattr(None, field_name_in_relation)
                  IF relation_model = None THEN Raise(AttributeError)
                  ELSE IF ~HasAttr(relation_model, parts[2]) THEN Raise(AttributeError)
                  ELSE Ok(QueryOrderBy(QueryJoin(q, relation_model),
                                       <<relation_model, parts[2]>>, direction_name))
        ELSE IF ~HasAttr(model, field_name) THEN Raise(AttributeError)
             ELSE Ok(QueryOrderBy(q, <<model, field_name>>, direction_name))

\* the body of the loop over group_by with no join for a relation path
GroupEntry_nojoin(model, q, field_name) ==
    LET parts == SplitPath(field_name) IN
    IF HasDot(field_name)
    THEN IF Len(parts) # 2 THEN Raise(ValueError)
         ELSE LET relation_model == get_related_model(model, parts[1]) IN
              IF relation_model = None THEN Raise(AttributeError)
              ELSE IF ~HasAttr(relation_model, parts[2]) THEN Raise(AttributeError)
              ELSE Ok(QueryGroupBy(q, <<relation_model, parts[2]>>))
    ELSE IF ~HasAttr(model, field_name) THEN Raise(AttributeError)
         ELSE Ok(QueryGroupBy(q, <<model, field_name>>))
\* the body of the loop over group_by: lines 401-409
GroupEntry(model, q, field_name) ==
    LET parts == SplitPath(field_name) IN
    IF HasDot(field_name)
    THEN IF Len(parts) # 2 THEN Raise(ValueError)
         ELSE LET relation_model == get_related_model(model, parts[1]) IN
              IF relation_model = None THEN Raise(AttributeError)
              ELSE IF ~HasAttr(relation_model, parts[2]) THEN Raise(AttributeError)
              ELSE Ok(QueryGroupBy(QueryJoin(q, relation_model),
                                   <<relation_model, parts[2]>>))
    ELSE IF ~HasAttr(model, field_name) THEN Raise(AttributeError)
         ELSE Ok(QueryGroupBy(q, <<model, field_name>>))

RECURSIVE SortLoop(_, _, _)
\* for (symbol, field_name) in sort: lines 379-392
SortLoop(model, q, entries) ==
    IF entries = <<>> THEN Ok(q)
    ELSE LET r == SortEntry(model, q, Head(entries)[1], Head(entries)[2]) IN
         IF IsOk(r) THEN SortLoop(model, r.val, Tail(entries)) ELSE r
RECURSIVE GroupLoop(_, _, _)
\* for field_name in group_by: lines 400-409
GroupLoop(model, q, names) ==
    IF names = <<>> THEN Ok(q)
    ELSE LET r == GroupEntry(model, q, Head(names)) IN
         IF IsOk(r) THEN GroupLoop(model, r.val, Tail(names)) ELSE r
\* PkOrder with the first primary key name only
PkOrder_first(model, q, pks) ==
    IF pks = <<>> THEN q ELSE QueryOrderBy(q, <<model, Head(pks)>>, "asc")

RECURSIVE PkOrder(_, _, _)
\* query.order_by(*pk_order): one ascending clause per primary key name
PkOrder(model, q, pks) ==
    IF pks = <<>> THEN q
    ELSE PkOrder(model, QueryOrderBy(q, <<model, Head(pks)>>, "asc"), Tail(pks))

\* the ordering of create_query with the flag _ignore_order_by not read
OrderStep_always(model, q, srt, ignore) ==
    IF Truthy(srt) THEN SortLoop(model, q, srt.list)
    ELSE Ok(PkOrder(model, q, primary_key_names(model)))
\* the ordering of create_query: lines 377-396
OrderStep(model, q, srt, ignore) ==
    IF ~ignore
    THEN IF Truthy(srt) THEN SortLoop(model, q, srt.list)
         ELSE Ok(PkOrder(model, q, primary_key_names(model)))
    ELSE Ok(q)
\* the grouping of create_query followed by an ordering on the primary key
GroupStep_thenorder(model, q, grp) ==
    IF Truthy(grp)
    THEN LET r == GroupLoop(model, q, grp.list) IN
         IF IsOk(r) THEN Ok(PkOrder(model, r.val, primary_key_names(model))) ELSE r
    ELSE Ok(q)
\* the grouping of create_query: lines 399-409
GroupStep(model, q, grp) ==
    IF Truthy(grp) THEN GroupLoop(model, q, grp.list) ELSE Ok(q)

\* query.one() returning one of the rows when there are several
QueryOne_any(q) ==
    LET rows == Matches(q.model, q.criteria) IN
    IF rows = {} THEN Raise(NoResultFound)
    ELSE Ok(CHOOSE row \in rows : TRUE)
\* query.one(): the one entity the query selects; NoResultFound when it
\* selects none, MultipleResultsFound when it selects more than one
QueryOne(q) ==
    LET rows == Matches(q.model, q.criteria) IN
    IF rows = {} THEN Raise(NoResultFound)
    ELSE IF Cardinality(rows) > 1 THEN Raise(MultipleResultsFound)
    ELSE Ok(CHOOSE row \in rows : TRUE)
\* what search returns: nothing yet, the query itself (line 460), or the
\* entity of query.one() (line 459)
NoResult == [ret |-> "none"]
Results(q) == [ret |-> "query", query |-> q]
Entity(row) == [ret |-> "one", row |-> row]

\* the calls that run concurrently
MaxInvocations == 2
Invocations == 1..MaxInvocations
\* a call not made yet
NoInvocation ==
    [pc |-> "idle", args |-> <<None, NULL, NULL, NULL, FALSE, FALSE>>, parsed |-> <<>>,
     compiled |-> <<>>, query |-> NoQuery, raised |-> None, result |-> NoResult]
\* the requests of the concurrent calls
ConcRequests ==
    { <<Person, ListV(<<Leaf("name", "eq", StrV("a"), Absent)>>), NULL, NULL, FALSE, TRUE>>,
      <<Person, ListV(<<Leaf("age", "gt", IntV(0), Absent),
                        Leaf("birthday", "eq", StrV("bogus"), Absent)>>),
        NULL, NULL, FALSE, FALSE>>,
      <<Person, ListV(<<Leaf("foo", "eq", IntV(1), Absent)>>), NULL, NULL, FALSE, FALSE>>,
      <<Person, ListV(<<>>), ListV(<< <<"-", "comments.content">> >>), ListV(<<"name">>),
        FALSE, FALSE>>,
      <<Comment, ListV(<<>>), NULL, ListV(<<"author.name">>), TRUE, FALSE>>,
      <<Person, ListV(<<>>), NULL, NULL, FALSE, TRUE>>,
      <<Person, ListV(<<>>), ListV(<< <<"+", "foo">> >>), NULL, FALSE, FALSE>>,
      <<Person, ListV(<<Leaf("age", "<=", IntV(1), Absent)>>), NULL, ListV(<<"foo">>),
        FALSE, FALSE>> }

\* create_query as one function of its arguments: the query it returns or
\* the exception it raises (lines 367-411)
create_query(model, fltrs, srt, grp, ignore) ==
    LET p == IF fltrs.t = "null" THEN Raise(TypeError)
             ELSE Comprehension([i \in DOMAIN fltrs.list |->
                                    from_dictionary(model, fltrs.list[i])])
    IN  IF ~IsOk(p) THEN p
        ELSE LET c == Comprehension([i \in DOMAIN p.val |-> _create_filter(model, p.val[i])])
             IN  IF ~IsOk(c) THEN c
                 ELSE LET o == OrderStep(model, QueryFilter(session_query(model), c.val),
                                         srt, ignore)
                      IN  IF ~IsOk(o) THEN o ELSE GroupStep(model, o.val, grp)

\* search as one function of its arguments: what it returns or the exception
\* it raises (lines 455-460)
search(model, fltrs, srt, grp, sngl, ignore) ==
    LET q == create_query(model, fltrs, srt, grp, ignore) IN
    IF ~IsOk(q) THEN q
    ELSE IF sngl
         THEN LET r == QueryOne(q.val) IN IF IsOk(r) THEN Ok(Entity(r.val)) ELSE r
         ELSE Ok(Results(q.val))

Init ==
    /\ pc = "idle"
    /\ mclass = None
    /\ filters = NULL
    /\ sort = NULL
    /\ group_by = NULL
    /\ ignore_order_by = FALSE
    /\ parsed = <<>>
    /\ compiled = <<>>
    /\ query = NoQuery
    /\ raised = None
    /\ single = FALSE
    /\ result = NoResult
    /\ inv = [t \in Invocations |-> NoInvocation]
    /\ registry = OPERATORS
    /\ metadata = Schema

\* search(session, model, filters, sort, group_by, single, _ignore_order_by)
\* is called and calls create_query with its arguments: lines 455-456, 367
Request ==
    /\ pc = "idle"
    /\ \E r \in Searches :
          /\ mclass' = r[1]
          /\ filters' = r[2]
          /\ sort' = r[3]
          /\ group_by' = r[4]
          /\ ignore_order_by' = r[5]
          /\ single' = r[6]
          /\ query' = session_query(r[1])
    /\ pc' = "parse"
    /\ UNCHANGED <<parsed, compiled, raised, result>>
    /\ UNCHANGED cvars

\* filters = [Filter.from_dictionary(model, f) for f in filters]: line 370
ParseFilters ==
    /\ pc = "parse"
    /\ LET r == IF filters.t = "null" THEN Raise(TypeError)
                ELSE Comprehension([i \in DOMAIN filters.list |->
                                       from_dictionary(mclass, filters.list[i])])
       IN  IF IsOk(r)
           THEN /\ parsed' = r.val
                /\ pc' = "compile"
                /\ UNCHANGED <<query, raised>>
           ELSE /\ raised' = r.exc
                /\ query' = NoQuery
                /\ pc' = "raised"
                /\ UNCHANGED parsed
    /\ UNCHANGED <<mclass, filters, sort, group_by, ignore_order_by, compiled, single, result>>
    /\ UNCHANGED cvars

\* filters = [QueryBuilder._create_filter(model, f) for f in filters]: line 372
CompileFilters ==
    /\ pc = "compile"
    /\ LET r == Comprehension([i \in DOMAIN parsed |-> _create_filter(mclass, parsed[i])])
       IN  IF IsOk(r)
           THEN /\ compiled' = r.val
                /\ pc' = "filter"
                /\ UNCHANGED <<query, raised>>
           ELSE /\ raised' = r.exc
                /\ query' = NoQuery
                /\ pc' = "raised"
                /\ UNCHANGED compiled
    /\ UNCHANGED <<mclass, filters, sort, group_by, ignore_order_by, parsed, single, result>>
    /\ UNCHANGED cvars

\* query = query.filter(*filters): line 373
FilterQuery ==
    /\ pc = "filter"
    /\ query' = QueryFilter(query, compiled)
    /\ pc' = "order"
    /\ UNCHANGED <<mclass, filters, sort, group_by, ignore_order_by, parsed, compiled, raised,
                   single, result>>
    /\ UNCHANGED cvars

\* the ordering of the query: lines 377-396
OrderQuery ==
    /\ pc = "order"
    /\ LET r == OrderStep(mclass, query, sort, ignore_order_by)
       IN  IF IsOk(r)
           THEN /\ query' = r.val
                /\ pc' = "group"
                /\ UNCHANGED raised
           ELSE /\ raised' = r.exc
                /\ query' = NoQuery
                /\ pc' = "raised"
    /\ UNCHANGED <<mclass, filters, sort, group_by, ignore_order_by, parsed, compiled,
                   single, result>>
    /\ UNCHANGED cvars

\* the grouping of the query and its return: lines 399-411
GroupQuery ==
    /\ pc = "group"
    /\ LET r == GroupStep(mclass, query, group_by)
       IN  IF IsOk(r)
           THEN /\ query' = r.val
                /\ pc' = "returned"
                /\ UNCHANGED raised
           ELSE /\ raised' = r.exc
                /\ query' = NoQuery
                /\ pc' = "raised"
    /\ UNCHANGED <<mclass, filters, sort, group_by, ignore_order_by, parsed, compiled,
                   single, result>>
    /\ UNCHANGED cvars

\* search after create_query has returned: lines 457-460
SearchReturn ==
    /\ pc = "returned"
    /\ IF single
       THEN LET r == QueryOne(query) IN
            IF IsOk(r)
            THEN /\ result' = Entity(r.val)
                 /\ pc' = "search_returned"
                 /\ UNCHANGED raised
            ELSE /\ raised' = r.exc
                 /\ pc' = "search_raised"
                 /\ UNCHANGED result
       ELSE /\ result' = Results(query)
            /\ pc' = "search_returned"
            /\ UNCHANGED raised
    /\ UNCHANGED <<mclass, filters, sort, group_by, ignore_order_by, parsed, compiled,
                   query, single>>
    /\ UNCHANGED cvars

Next ==
    \/ Request
    \/ ParseFilters
    \/ CompileFilters
    \/ FilterQuery
    \/ OrderQuery
    \/ GroupQuery
    \/ SearchReturn

Spec == Init /\ [][Next]_<<vars, cvars>>

(***************************************************************************)
(* Concurrent calls of search: each call has its own arguments and locals; *)
(* the calls share the module's OPERATORS dictionary and the model         *)
(* classes. Any call may take the next step.                               *)
(***************************************************************************)
\* the Filter objects of every call kept in one place shared by the calls
FilterSlot_shared(t) == 1
\* where the call t keeps the Filter objects of line 370: a local of its own
FilterSlot(t) == t

\* the call t is made: lines 455-456, 367
CRequest(t) ==
    /\ inv[t].pc = "idle"
    /\ \E r \in ConcRequests :
          inv' = [inv EXCEPT ![t] = [@ EXCEPT !.pc = "parse", !.args = r,
                                              !.query = session_query(r[1])]]
    /\ UNCHANGED <<registry, metadata>>
    /\ UNCHANGED vars

\* line 370 in the call t
CParseFilters(t) ==
    /\ inv[t].pc = "parse"
    /\ LET a == inv[t].args
           r == IF a[2].t = "null" THEN Raise(TypeError)
                ELSE Comprehension([i \in DOMAIN a[2].list |->
                                       from_dictionary(a[1], a[2].list[i])])
       IN  IF IsOk(r)
           THEN inv' = [[inv EXCEPT ![FilterSlot(t)].parsed = r.val]
                            EXCEPT ![t].pc = "compile"]
           ELSE inv' = [inv EXCEPT ![t] = [@ EXCEPT !.pc = "raised", !.raised = r.exc,
                                                    !.query = NoQuery]]
    /\ UNCHANGED <<registry, metadata>>
    /\ UNCHANGED vars

\* line 372 in the call t
CCompileFilters(t) ==
    /\ inv[t].pc = "compile"
    /\ LET a == inv[t].args
           nodes == inv[FilterSlot(t)].parsed
           r == Comprehension([i \in DOMAIN nodes |-> _create_filter(a[1], nodes[i])])
       IN  IF IsOk(r)
           THEN inv' = [inv EXCEPT ![t] = [@ EXCEPT !.pc = "filter", !.compiled = r.val]]
           ELSE inv' = [inv EXCEPT ![t] = [@ EXCEPT !.pc = "raised", !.raised = r.exc,
                                                    !.query = NoQuery]]
    /\ UNCHANGED <<registry, metadata>>
    /\ UNCHANGED vars

\* line 373 in the call t
CFilterQuery(t) ==
    /\ inv[t].pc = "filter"
    /\ inv' = [inv EXCEPT ![t] = [@ EXCEPT !.pc = "order",
                                           !.query = QueryFilter(@, inv[t].compiled)]]
    /\ UNCHANGED <<registry, metadata>>
    /\ UNCHANGED vars

\* lines 377-396 in the call t
COrderQuery(t) ==
    /\ inv[t].pc = "order"
    /\ LET a == inv[t].args
           r == OrderStep(a[1], inv[t].query, a[3], a[5])
       IN  IF IsOk(r)
           THEN inv' = [inv EXCEPT ![t] = [@ EXCEPT !.pc = "group", !.query = r.val]]
           ELSE inv' = [inv EXCEPT ![t] = [@ EXCEPT !.pc = "raised", !.raised = r.exc,
                                                    !.query = NoQuery]]
    /\ UNCHANGED <<registry, metadata>>
    /\ UNCHANGED vars

\* lines 399-411 in the call t
CGroupQuery(t) ==
    /\ inv[t].pc = "group"
    /\ LET a == inv[t].args
           r == GroupStep(a[1], inv[t].query, a[4])
       IN  IF IsOk(r)
           THEN inv' = [inv EXCEPT ![t] = [@ EXCEPT !.pc = "returned", !.query = r.val]]
           ELSE inv' = [inv EXCEPT ![t] = [@ EXCEPT !.pc = "raised", !.raised = r.exc,
                                                    !.query = NoQuery]]
    /\ UNCHANGED <<registry, metadata>>
    /\ UNCHANGED vars

\* lines 457-460 in the call t
CSearchReturn(t) ==
    /\ inv[t].pc = "returned"
    /\ IF inv[t].args[6]
       THEN LET r == QueryOne(inv[t].query) IN
            IF IsOk(r)
            THEN inv' = [inv EXCEPT ![t] = [@ EXCEPT !.pc = "search_returned",
                                                     !.result = Entity(r.val)]]
            ELSE inv' = [inv EXCEPT ![t] = [@ EXCEPT !.pc = "search_raised",
                                                     !.raised = r.exc]]
       ELSE inv' = [inv EXCEPT ![t] = [@ EXCEPT !.pc = "search_returned",
                                                !.result = Results(inv[t].query)]]
    /\ UNCHANGED <<registry, metadata>>
    /\ UNCHANGED vars

ConcNext ==
    \E t \in Invocations :
        \/ CRequest(t)
        \/ CParseFilters(t)
        \/ CCompileFilters(t)
        \/ CFilterQuery(t)
        \/ COrderQuery(t)
        \/ CGroupQuery(t)
        \/ CSearchReturn(t)

SpecConc == Init /\ [][ConcNext]_<<vars, cvars>>

(***************************************************************************)
(* What the claims speak of.                                               *)
(***************************************************************************)
Done == pc \in {"returned", "raised"}
IsLeafDict(d) == "or" \notin DOMAIN d /\ "and" \notin DOMAIN d
\* the request is one filter object, a leaf
SingleLeaf ==
    /\ filters.t = "list"
    /\ Len(filters.list) = 1
    /\ IsLeafDict(filters.list[1])
TheFilter == filters.list[1]
HasKey(d, key) == key \in DOMAIN d
\* parsing and compiling one filter dictionary: lines 370 and 372 for one element
CompileDict(m, d) ==
    LET p == from_dictionary(m, d) IN
    IF IsOk(p) THEN _create_filter(m, p.val) ELSE p
\* the rows that the compiled dictionary d selects
MatchesOf(m, d) == Matches(m, <<CompileDict(m, d).val>>)
\* the request ended as the call r did: the same exception, or the same rows
SameOutcome(r) ==
    /\ pc = "raised" => ~IsOk(r) /\ r.exc = raised
    /\ pc = "returned" =>
          IsOk(r) /\ Matches(mclass, <<r.val>>) = Matches(mclass, query.criteria)

SynonymGroups ==
    { {"==", "eq", "equals", "equal_to"},
      {"!=", "ne", "neq", "not_equal_to", "does_not_equal"},
      {">", "gt"},
      {"<", "lt"},
      {">=", "ge", "gte", "geq"},
      {"<=", "le", "lte", "leq"} }

\* C1: a leaf filter compiled with any synonym of its operator ends as the
\* leaf itself does: it selects the same rows, or raises the same exception.
C1_SynonymsAgree ==
    (Done /\ SingleLeaf /\ HasKey(TheFilter, "op")) =>
        \A g \in SynonymGroups :
            TheFilter.op \in g =>
                \A o \in g : SameOutcome(CompileDict(mclass, [TheFilter EXCEPT !["op"] = o]))

\* a >= filter on age has selected some rows and left others out
C1_Witness ==
    /\ pc = "returned"
    /\ SingleLeaf
    /\ TheFilter = Leaf("age", "geq", IntV(1), Absent)
    /\ Matches(mclass, query.criteria) = {r \in Persons : r.id \in {IntV(1), IntV(2)}}

\* the rows of `m` whose attribute `name` is null
NullRows(m, name) ==
    {row \in Rows(m) :
        IF IsRelation(m, name) THEN Related(m, name, row) = {}
        ELSE row[name].t = "null"}
\* a leaf on an existing field, with no val (or a null val) and no compare-to field
NullArgumentLeaf ==
    /\ SingleLeaf
    /\ HasKey(TheFilter, "name") /\ HasAttr(mclass, TheFilter.name)
    /\ HasKey(TheFilter, "op")
    /\ ~HasKey(TheFilter, "field")
    /\ HasKey(TheFilter, "val") => TheFilter.val.t = "null"

\* C2: eq/== with a null argument on an existing field raises ComparisonToNull
\* and returns no query; is_null on the same field, with no argument, compiles
\* and selects exactly the rows whose field is null.
C2_EqNullRaisesIsNullMatches ==
    (Done /\ NullArgumentLeaf) =>
        /\ TheFilter.op \in {"eq", "=="} =>
              /\ pc = "raised" /\ raised = ComparisonToNull /\ query = NoQuery
              /\ LET r == CompileDict(mclass, Leaf(TheFilter.name, "is_null", AbsentV, Absent))
                 IN  IsOk(r) /\ Matches(mclass, <<r.val>>) = NullRows(mclass, TheFilter.name)
        /\ (TheFilter.op = "is_null" /\ ~HasKey(TheFilter, "val")) =>
              /\ pc = "returned"
              /\ Matches(mclass, query.criteria) = NullRows(mclass, TheFilter.name)

\* eq with an explicit null on name has raised ComparisonToNull
C2_Witness ==
    /\ pc = "raised"
    /\ SingleLeaf
    /\ TheFilter = Leaf("name", "eq", NULL, Absent)
    /\ raised = ComparisonToNull

(***************************************************************************)
(* C3: unknown operators.                                                  *)
(***************************************************************************)
RECURSIVE UnknownOpInSub(_)
\* the sub-filter dictionary d of a has/any holds an operator name that is
\* no key of OPERATORS, itself or further down
UnknownOpInSub(d) ==
    /\ HasKey(d, "op")
    /\ \/ d.op \notin DOMAIN OPERATORS
       \/ /\ d.op \in SubfilterNames
          /\ HasKey(d, "val") /\ d.val.t = "dict"
          /\ UnknownOpInSub(d.val.dict)
RECURSIVE UnknownOpIn(_)
\* the Filter tree holds a leaf whose operator string is no key of OPERATORS:
\* a leaf of the tree, or a leaf of the sub-filter a has/any leaf is given
UnknownOpIn(filt) ==
    IF IsJunctionFilter(filt)
    THEN \E i \in DOMAIN filt.subfilters : UnknownOpIn(filt.subfilters[i])
    ELSE /\ filt.operator # None
         /\ \/ filt.operator \notin DOMAIN OPERATORS
            \/ /\ filt.operator \in SubfilterNames
               /\ filt.otherfield = None
               /\ filt.argument.t = "dict"
               /\ UnknownOpInSub(filt.argument.dict)

RECURSIVE FixOpsSub(_)
\* the sub-filter with is_null in the place of every unknown operator name
FixOpsSub(d) ==
    IF d.op \notin DOMAIN OPERATORS THEN [d EXCEPT !["op"] = "is_null"]
    ELSE IF d.op \in SubfilterNames /\ HasKey(d, "val") /\ d.val.t = "dict"
              /\ HasKey(d.val.dict, "op")
         THEN [d EXCEPT !["val"] = DictV(FixOpsSub(d.val.dict))]
         ELSE d
RECURSIVE FixOps(_)
\* the Filter tree with is_null in the place of every unknown operator name
FixOps(filt) ==
    IF IsJunctionFilter(filt)
    THEN [filt EXCEPT !.subfilters = [i \in DOMAIN filt.subfilters |-> FixOps(filt.subfilters[i])]]
    ELSE IF filt.operator = None THEN filt
    ELSE IF filt.operator \notin DOMAIN OPERATORS THEN [filt EXCEPT !.operator = "is_null"]
    ELSE IF filt.operator \in SubfilterNames /\ filt.argument.t = "dict"
              /\ HasKey(filt.argument.dict, "op")
         THEN [filt EXCEPT !.argument = DictV(FixOpsSub(filt.argument.dict))]
         ELSE filt
\* the unknown operator names are the only defect of the request
OnlyUnknownOps ==
    \A i \in DOMAIN parsed : IsOk(_create_filter(mclass, FixOps(parsed[i])))
SomeUnknownOp == \E i \in DOMAIN parsed : UnknownOpIn(parsed[i])

\* C3 as stated: a filter tree with a leaf whose operator string is no key
\* of OPERATORS fails with UnknownOperatorError, wherever the leaf stands.
C3_UnknownOperatorAlwaysKeyError ==
    (Done /\ SomeUnknownOp) => (pc = "raised" /\ raised = UnknownOperatorError)

\* C3 as amended: such a tree never yields a query; the exception is
\* UnknownOperatorError when the unknown operator names are the only defect
\* of the request, whether the leaf stands at the top level, in a junction or
\* in the sub-filter of a has/any.
C3_UnknownOperatorFails ==
    (Done /\ SomeUnknownOp) =>
        /\ pc = "raised"
        /\ query = NoQuery
        /\ OnlyUnknownOps => raised = UnknownOperatorError

\* an unknown operator in the sub-filter of an `any`, inside an and-junction
\* behind a leaf that compiles, has raised KeyError
C3_Witness ==
    /\ pc = "raised"
    /\ raised = UnknownOperatorError
    /\ filters.t = "list" /\ Len(filters.list) = 1
    /\ HasKey(TheFilter, "and") /\ ~HasKey(TheFilter, "or")
    /\ Len(TheFilter["and"]) = 2
    /\ TheFilter["and"][1] = Leaf("name", "eq", StrV("a"), Absent)
    /\ TheFilter["and"][2] =
          Leaf("comments", "any", DictV(Leaf("content", "bogus", StrV("a"), Absent)), Absent)

(***************************************************************************)
(* C4: unknown fields.                                                     *)
(***************************************************************************)
\* the name of the leaf, or the relation of its relation-qualified name, is
\* no attribute of the model
UnknownLeft(m, d) ==
    /\ HasKey(d, "name")
    /\ LET parts == SplitName(d.name) IN
       /\ Len(parts) <= 2
       /\ ~HasAttr(m, parts[1])
\* the compare-to field of the leaf is no attribute of the model
UnknownOther(m, d) == HasKey(d, "field") /\ ~HasAttr(m, d.field)

BinaryNoArgument ==
    /\ SingleLeaf
    /\ HasKey(TheFilter, "name") /\ HasAttr(mclass, TheFilter.name)
    /\ HasKey(TheFilter, "op") /\ TheFilter.op \in DOMAIN OPERATORS
    /\ OPERATORS[TheFilter.op].numargs = 2
    /\ ~HasKey(TheFilter, "val")
    /\ ~HasKey(TheFilter, "field")

\* C5: a leaf with a binary operator and neither val nor field fails with
\* the arity-mismatch error (the TypeError of lines 277-279), which is not
\* the error of an unknown operator.
C5_MissingArgumentIsArityMismatch ==
    (Done /\ BinaryNoArgument) =>
        /\ pc = "raised"
        /\ raised = ArityMismatchError
        /\ raised # UnknownOperatorError

(***************************************************************************)
(* C6: a unary operator with an argument.                                  *)
(***************************************************************************)
\* a leaf with is_null / is_not_null on an existing field, no compare-to field
UnaryLeaf ==
    /\ SingleLeaf
    /\ HasKey(TheFilter, "name") /\ HasAttr(mclass, TheFilter.name)
    /\ HasKey(TheFilter, "op") /\ TheFilter.op \in UnaryNames
    /\ ~HasKey(TheFilter, "field")

\* C6: a unary leaf on an existing field always compiles, and with a val it
\* compiles to the predicate it compiles to without the val.
C6_UnaryArgumentIgnored ==
    (Done /\ UnaryLeaf) =>
        LET r == CompileDict(mclass, Leaf(TheFilter.name, TheFilter.op, AbsentV, Absent))
        IN  /\ IsOk(r)
            /\ pc = "returned"
            /\ query.criteria = <<r.val>>

(***************************************************************************)
(* C7: a leaf without name or without op.                                  *)
(***************************************************************************)
MissingKey == SingleLeaf /\ (~HasKey(TheFilter, "name") \/ ~HasKey(TheFilter, "op"))

\* C7 as stated: a leaf dictionary without `name` or without `op` fails with
\* an error of a kind that is neither UnknownOperatorError nor
\* UnknownFieldError.
C7_MissingKeyIsDistinctKind ==
    (Done /\ MissingKey) =>
        /\ pc = "raised"
        /\ raised \notin {UnknownOperatorError, UnknownFieldError}

\* C7 as amended: such a leaf never yields a query.  Without `name` the
\* exception is TypeError.  With `name` and without `op` it is the KeyError
\* of an unknown operator, unless the val is not coerced (DateTimeParseError),
\* the name has more than one delimiter (ValueError) or the compare-to field
\* does not exist (AttributeError).
C7_MissingKeyFails ==
    (Done /\ MissingKey) =>
        /\ pc = "raised"
        /\ query = NoQuery
        /\ ~HasKey(TheFilter, "name") => raised = TypeError
        /\ HasKey(TheFilter, "name") =>
              /\ raised \in {KeyError, DateTimeParseError, ValueError, AttributeError}
              /\ (/\ Len(SplitName(TheFilter.name)) <= 2
                  /\ IsOk(string_to_datetime(mclass, TheFilter.name,
                                             Get(TheFilter, "val", NULL)))
                  /\ HasKey(TheFilter, "field") => HasAttr(mclass, TheFilter.field))
                    => raised = KeyError

\* a leaf with name and val and no op has raised the KeyError of an unknown
\* operator
C7_Witness ==
    /\ pc = "raised"
    /\ raised = KeyError
    /\ SingleLeaf
    /\ TheFilter = Leaf("name", Absent, StrV("a"), Absent)

(***************************************************************************)
(* C8, C9, C10: junctions.                                                 *)
(***************************************************************************)
\* the children of a filter dictionary, under either key
Children(d) ==
    (IF HasKey(d, "and") THEN {d["and"][i] : i \in DOMAIN d["and"]} ELSE {})
    \cup (IF HasKey(d, "or") THEN {d["or"][i] : i \in DOMAIN d["or"]} ELSE {})
RECURSIVE Nodes(_)
\* the filter dictionaries of the tree of d, d among them
Nodes(d) == {d} \cup UNION {Nodes(c) : c \in Children(d)}
\* the filter dictionaries of the request
RequestNodes ==
    IF filters.t = "list" THEN UNION {Nodes(filters.list[i]) : i \in DOMAIN filters.list}
    ELSE {}
\* a dictionary with a non-empty "and" and a non-empty "or"
HasBothKeys(d) ==
    /\ HasKey(d, "and") /\ HasKey(d, "or")
    /\ d["and"] # <<>> /\ d["or"] # <<>>
\* a dictionary with one of the keys "and" and "or", and no children under it
IsEmptyJunction(d) ==
    \/ HasKey(d, "and") /\ ~HasKey(d, "or") /\ d["and"] = <<>>
    \/ HasKey(d, "or") /\ ~HasKey(d, "and") /\ d["or"] = <<>>
\* a dictionary with one of the keys "and" and "or", and children under it
IsJunctionDict(d) ==
    \/ HasKey(d, "and") /\ ~HasKey(d, "or") /\ d["and"] # <<>>
    \/ HasKey(d, "or") /\ ~HasKey(d, "and") /\ d["or"] # <<>>

\* C8: a request with a dictionary that has both an "and" and an "or" key,
\* each with children, is rejected.
C8_BothKeysRejected ==
    (Done /\ \E d \in RequestNodes : HasBothKeys(d)) => pc = "raised"

\* C9: a request with a junction of no children, at any depth, is rejected:
\* no query is returned.
C9_EmptyJunctionRejected ==
    (Done /\ \E d \in RequestNodes : IsEmptyJunction(d)) =>
        (pc = "raised" /\ query = NoQuery)

\* the rows that all (and) or some (or) of the children of the junction d
\* select when they are compiled one by one
ChildrenRows(m, d) ==
    IF HasKey(d, "and")
    THEN {row \in Rows(m) : \A c \in Children(d) : row \in MatchesOf(m, c)}
    ELSE {row \in Rows(m) : \E c \in Children(d) : row \in MatchesOf(m, c)}
\* the request is one filter object, a junction, and every dictionary of its
\* tree is a leaf or a junction with children under one key
JunctionRequest ==
    /\ filters.t = "list"
    /\ Len(filters.list) = 1
    /\ IsJunctionDict(TheFilter)
    /\ \A d \in Nodes(TheFilter) : IsLeafDict(d) \/ IsJunctionDict(d)

\* C10: the query returned for a junction selects the rows the junction
\* selects, and every junction of the tree, at any depth, selects the
\* intersection (and) or the union (or) of the rows its children select when
\* compiled one by one.
C10_JunctionIsIntersectionOrUnion ==
    (pc = "returned" /\ JunctionRequest) =>
        /\ Matches(mclass, query.criteria) = MatchesOf(mclass, TheFilter)
        /\ \A d \in Nodes(TheFilter) :
              IsJunctionDict(d) => MatchesOf(mclass, d) = ChildrenRows(mclass, d)

\* an or-junction of a nested and-junction and a leaf has selected rows that
\* neither child selects alone
C10_Witness ==
    /\ pc = "returned"
    /\ JunctionRequest
    /\ TheFilter = ("or" :> << "and" :> <<Leaf("age", "gt", IntV(0), Absent),
                                          Leaf("age", "<=", IntV(1), Absent)>>,
                              Leaf("name", "is_null", AbsentV, Absent) >>)
    /\ Matches(mclass, query.criteria) = {r \in Persons : r.id \in {IntV(1), IntV(3)}}

(***************************************************************************)
(* C11: the filters of the list.                                           *)
(***************************************************************************)
\* C11: the query returned for a list of K filter objects selects exactly
\* the rows that every one of the K filters selects when compiled alone;
\* for K = 0 it selects every row of the model.
C11_TopLevelFiltersConjoin ==
    (pc = "returned" /\ filters.t = "list") =>
        Matches(mclass, query.criteria) =
            {row \in Rows(mclass) :
                \A i \in DOMAIN filters.list : row \in MatchesOf(mclass, filters.list[i])}

\* two filters that select {1, 2} and {1, 3} have selected row 1 only
C11_Witness ==
    /\ pc = "returned"
    /\ filters = ListV(<<Leaf("age", "gt", IntV(0), Absent),
                        Leaf("age", "<=", IntV(1), Absent)>>)
    /\ MatchesOf(mclass, filters.list[1]) = {r \in Persons : r.id \in {IntV(1), IntV(2)}}
    /\ MatchesOf(mclass, filters.list[2]) = {r \in Persons : r.id \in {IntV(1), IntV(3)}}
    /\ Matches(mclass, query.criteria) = {r \in Persons : r.id = IntV(1)}

(***************************************************************************)
(* C12 .. C16: has and any, compare-to fields, relation-qualified names.   *)
(***************************************************************************)
\* a leaf with has/any on a relationship or proxy of the model, a val and no
\* compare-to field
SubfilterLeaf ==
    /\ SingleLeaf
    /\ HasKey(TheFilter, "name") /\ HasAttr(mclass, TheFilter.name)
    /\ IsRelation(mclass, TheFilter.name)
    /\ HasKey(TheFilter, "op") /\ TheFilter.op \in SubfilterNames
    /\ HasKey(TheFilter, "val")
    /\ ~HasKey(TheFilter, "field")
\* any on a to-many relationship or a proxy, has on a to-one relationship
RightKind(m, name, op) ==
    \/ op = "any" /\ Schema[m][name].kind \in {"to_many", "proxy"}
    \/ op = "has" /\ Schema[m][name].kind = "to_one"
\* the model the relation of the leaf leads to
RelatedModel == Schema[mclass][TheFilter.name].target
\* the sub-filter of the leaf is a leaf dictionary with a name without delimiter
PlainSubfilter ==
    /\ SubfilterLeaf
    /\ RightKind(mclass, TheFilter.name, TheFilter.op)
    /\ TheFilter.val.t = "dict"
    /\ IsLeafDict(TheFilter.val.dict)
    /\ HasKey(TheFilter.val.dict, "name") /\ ~HasDelimiter(TheFilter.val.dict.name)

\* C12: an `any` leaf on a to-many relation (relationship or association
\* proxy) selects the owners with at least one related row that the
\* sub-filter selects on the related model; a `has` leaf on a to-one relation
\* selects the owners whose related row exists and is selected by it.
C12_HasAnySemantics ==
    (Done /\ PlainSubfilter /\ IsOk(CompileDict(RelatedModel, TheFilter.val.dict))) =>
        /\ pc = "returned"
        /\ Matches(mclass, query.criteria) =
              {row \in Rows(mclass) :
                  \E r \in Related(mclass, TheFilter.name, row) :
                      r \in MatchesOf(RelatedModel, TheFilter.val.dict)}

\* `any` on the association proxy Article.tags has selected the two articles
\* that have a tag whose name ends in b, and neither of the other two
C12_Witness ==
    /\ pc = "returned"
    /\ mclass = Article
    /\ PlainSubfilter
    /\ TheFilter = Leaf("tags", "any", DictV(Leaf("name", "like", StrV("%b"), Absent)), Absent)
    /\ Matches(mclass, query.criteria) = {a \in Articles : a.id \in {IntV(1), IntV(2)}}

\* the val of the has/any leaf is an and/or junction dictionary
JunctionSubfilter ==
    /\ SubfilterLeaf
    /\ RightKind(mclass, TheFilter.name, TheFilter.op)
    /\ TheFilter.val.t = "dict"
    /\ ~IsLeafDict(TheFilter.val.dict)
\* the val of the has/any leaf is itself a has/any leaf with a leaf
\* dictionary as val, on a relation of the related model
NestedSubfilter ==
    /\ PlainSubfilter
    /\ LET F == TheFilter.val.dict IN
       /\ HasKey(F, "op") /\ F.op \in SubfilterNames
       /\ HasAttr(RelatedModel, F.name) /\ IsRelation(RelatedModel, F.name)
       /\ RightKind(RelatedModel, F.name, F.op)
       /\ HasKey(F, "val") /\ F.val.t = "dict"
       /\ IsLeafDict(F.val.dict)
       /\ HasKey(F.val.dict, "name") /\ ~HasDelimiter(F.val.dict.name)

\* C13 as stated: a has/any leaf whose val is a junction dictionary that
\* compiles on the related model does not fail, and selects the owners with a
\* related row that the junction selects.
C13_JunctionSubfilterCompiles ==
    (Done /\ JunctionSubfilter /\ IsOk(CompileDict(RelatedModel, TheFilter.val.dict))) =>
        /\ pc = "returned"
        /\ Matches(mclass, query.criteria) =
              {row \in Rows(mclass) :
                  \E r \in Related(mclass, TheFilter.name, row) :
                      r \in MatchesOf(RelatedModel, TheFilter.val.dict)}

\* C13 as amended: the dictionary given as val of has/any is read as a leaf
\* dictionary.  A junction dictionary has no 'name' and raises KeyError; a
\* has/any leaf is compiled on the related model, and its own sub-filter on
\* the model related to that one.
C13_SubfilterIsLeaf ==
    /\ (Done /\ JunctionSubfilter) =>
          (pc = "raised" /\ raised = KeyError /\ query = NoQuery)
    /\ (Done /\ NestedSubfilter) =>
          LET F == TheFilter.val.dict
              G == F.val.dict
              third == Schema[RelatedModel][F.name].target
          IN  IsOk(CompileDict(third, G)) =>
                /\ pc = "returned"
                /\ query.criteria =
                      << Exists(TheFilter.op, <<mclass, TheFilter.name>>,
                                Exists(F.op, <<RelatedModel, F.name>>,
                                       CompileDict(third, G).val)) >>

\* an `any` whose val is an or-junction of two leaves that compile on
\* Comment has raised KeyError
C13_Witness ==
    /\ pc = "raised"
    /\ raised = KeyError
    /\ mclass = Person
    /\ JunctionSubfilter
    /\ TheFilter = Leaf("comments", "any",
                        DictV("or" :> <<Leaf("content", "eq", StrV("a"), Absent),
                                        Leaf("content", "eq", StrV("B"), Absent)>>),
                        Absent)
    /\ IsOk(CompileDict(Comment, TheFilter.val.dict))

\* a has/any leaf whose val is a number or a string, on the relation R of a
\* name R or R__F
ScalarSubfilter ==
    /\ SingleLeaf
    /\ HasKey(TheFilter, "name") /\ Len(SplitName(TheFilter.name)) <= 2
    /\ LET R == SplitName(TheFilter.name)[1] IN
       /\ HasAttr(mclass, R) /\ IsRelation(mclass, R)
       /\ HasKey(TheFilter, "op") /\ TheFilter.op \in SubfilterNames
       /\ RightKind(mclass, R, TheFilter.op)
    /\ HasKey(TheFilter, "val") /\ TheFilter.val.t \in {"int", "str"}
    /\ ~HasKey(TheFilter, "field")

\* C14: a has/any leaf with a scalar val compiles to `the field of the
\* related model named as the leaf's field name equals the scalar': the field
\* F of a name R__F, the relation name itself of a plain name R.  It selects
\* the owners with a related row whose field has that value, and raises
\* AttributeError when the related model has no field of that name.
C14_ScalarSubfilterIsEquality ==
    (Done /\ ScalarSubfilter) =>
        LET parts == SplitName(TheFilter.name)
            R == parts[1]
            fn == IF HasDelimiter(TheFilter.name) THEN parts[2] ELSE TheFilter.name
            related == Schema[mclass][R].target
        IN  IF HasAttr(related, fn)
            THEN /\ pc = "returned"
                 /\ query.criteria =
                       << Exists(TheFilter.op, <<mclass, R>>,
                                 Cmp("eq", <<related, fn>>, TheFilter.val)) >>
                 /\ Matches(mclass, query.criteria) =
                       {row \in Rows(mclass) :
                           \E r \in Related(mclass, R, row) : r[fn] = TheFilter.val}
            ELSE pc = "raised" /\ raised = AttributeError /\ query = NoQuery

\* comments__content any "a" has selected the two persons with a comment
\* whose content is "a"
C14_Witness ==
    /\ pc = "returned"
    /\ mclass = Person
    /\ ScalarSubfilter
    /\ TheFilter = Leaf("comments__content", "any", StrV("a"), Absent)
    /\ Matches(mclass, query.criteria) = {r \in Persons : r.id \in {IntV(1), IntV(2)}}

\* a leaf that compares a column of the model with another column of it:
\* an operator of two arguments, and a compare-to field
FieldLeaf ==
    /\ SingleLeaf
    /\ HasKey(TheFilter, "name") /\ HasAttr(mclass, TheFilter.name)
    /\ ~IsRelation(mclass, TheFilter.name)
    /\ HasKey(TheFilter, "op") /\ TheFilter.op \in DOMAIN OPERATORS
    /\ OPERATORS[TheFilter.op].numargs = 2
    /\ HasKey(TheFilter, "field") /\ HasAttr(mclass, TheFilter.field)
    /\ ~IsRelation(mclass, TheFilter.field)
\* the leaf compiled to the comparison of its column with its compare-to
\* column, as the leaf without val does
ComparesFields ==
    LET r == CompileDict(mclass, Leaf(TheFilter.name, TheFilter.op, AbsentV, TheFilter.field))
    IN  /\ IsOk(r)
        /\ pc = "returned"
        /\ query.criteria = <<r.val>>
        /\ r.val.a = ColV(mclass, TheFilter.field)

\* C15: a leaf with a compare-to field compiles to the comparison of the
\* left column with that column of the same row, whatever val is sent with
\* it, and a missing val raises no ComparisonToNull.
C15_FieldIsRightHandSide ==
    (Done /\ FieldLeaf) => ComparesFields

\* the sub-filter of the has/any leaf is a leaf dictionary with a name R__F
QualifiedSubfilter ==
    /\ SubfilterLeaf
    /\ RightKind(mclass, TheFilter.name, TheFilter.op)
    /\ TheFilter.val.t = "dict"
    /\ IsLeafDict(TheFilter.val.dict)
    /\ HasKey(TheFilter.val.dict, "name") /\ HasKey(TheFilter.val.dict, "op")
    /\ Len(SplitName(TheFilter.val.dict.name)) = 2

\* C16: a name R__F in the sub-filter dictionary of a has/any is read as it
\* is read in a top-level leaf on the related model, R the relation and F the
\* field: the sub-filter compiles to what that leaf compiles to, or raises
\* what it raises.
C16_QualifiedNameReadAlike ==
    (Done /\ QualifiedSubfilter) =>
        LET top == CompileDict(RelatedModel, TheFilter.val.dict) IN
        IF IsOk(top)
        THEN /\ pc = "returned"
             /\ query.criteria = << Exists(TheFilter.op, <<mclass, TheFilter.name>>, top.val) >>
        ELSE pc = "raised" /\ raised = top.exc

(***************************************************************************)
(* C17 .. C20: the order of the steps, and the ordering of the query.      *)
(***************************************************************************)
\* the calls of the kind `call` among the calls made on the query, in order
CallsOf(q, call) == SelectSeq(q.calls, LAMBDA c : c.call = call)
\* the calls on the query that are no order_by
CallsBut(q, call) == SelectSeq(q.calls, LAMBDA c : c.call # call)

C18_DefaultOrderIsPrimaryKey ==
    (pc = "returned" /\ ~Truthy(sort) /\ ~ignore_order_by) =>
        LET pks == primary_key_names(mclass) IN
        /\ CallsOf(query, "order_by") =
              [i \in DOMAIN pks |-> QueryCall("order_by", mclass, pks[i], "asc")]
        /\ ~Truthy(group_by) => CallsOf(query, "join") = <<>>
        /\ query = create_query(mclass, filters, sort, group_by, ignore_order_by).val

\* a query on ArticleTag, whose primary key has two columns, has been
\* returned with both of them as its ordering
C18_Witness ==
    /\ pc = "returned"
    /\ mclass = ArticleTag
    /\ sort = NULL
    /\ ~ignore_order_by
    /\ CallsOf(query, "order_by") =
          << QueryCall("order_by", ArticleTag, "article_id", "asc"),
             QueryCall("order_by", ArticleTag, "tag_id", "asc") >>

\* C19: with _ignore_order_by set the run ends as the run with the flag unset
\* and sort None does, but for the order_by clauses: the same exception, or a
\* query with the same criteria and the same filter, join and group_by calls,
\* and no order_by at all; the sort is not read, so it adds no join and an
\* invalid sort field raises nothing.
C19_IgnoreOrderBy ==
    (Done /\ ignore_order_by) =>
        LET r == create_query(mclass, filters, NULL, group_by, FALSE) IN
        /\ pc = "raised" => (~IsOk(r) /\ r.exc = raised)
        /\ pc = "returned" =>
              /\ IsOk(r)
              /\ CallsOf(query, "order_by") = <<>>
              /\ query.criteria = r.val.criteria
              /\ query.calls = CallsBut(r.val, "order_by")

\* with the flag set, a sort on a field the model does not have has raised
\* nothing: the query is returned, grouped and without ordering
C19_Witness ==
    /\ pc = "returned"
    /\ ignore_order_by
    /\ sort = ListV(<< <<"+", "foo">> >>)
    /\ group_by = ListV(<<"comments.content">>)
    /\ [i \in DOMAIN query.calls |-> query.calls[i].call] = <<"filter", "join", "group_by">>

\* the column a field name of sort or group_by stands for
PathColumn(model, field_name) ==
    IF HasDot(field_name)
    THEN <<get_related_model(model, SplitPath(field_name)[1]), SplitPath(field_name)[2]>>
    ELSE <<model, field_name>>

\* C20: with a sort of (sign, field) pairs and ordering not suppressed, the
\* order_by clauses of the returned query are one per pair, in the order of
\* the pairs, ascending for the sign "+" and descending for any other sign,
\* and no clause on the primary key is added.
C20_OneOrderByPerPair ==
    (pc = "returned" /\ Truthy(sort) /\ ~ignore_order_by) =>
        CallsOf(query, "order_by") =
            [i \in DOMAIN sort.list |->
                QueryCall("order_by",
                          PathColumn(mclass, sort.list[i][2])[1],
                          PathColumn(mclass, sort.list[i][2])[2],
                          IF sort.list[i][1] = "+" THEN "asc" ELSE "desc")]

\* a sort with the sign "asc" has been returned as a descending order
C20_Witness ==
    /\ pc = "returned"
    /\ ~ignore_order_by
    /\ sort = ListV(<< <<"asc", "name">> >>)
    /\ CallsOf(query, "order_by") = << QueryCall("order_by", Person, "name", "desc") >>

(***************************************************************************)
(* C21, C22: relation paths in sort and group_by.                          *)
(***************************************************************************)
RECURSIVE SortCalls(_, _)
\* the calls a sort stands for: for each (sign, path) pair one order_by on
\* the column of the path, preceded by a join against the related model when
\* the path is `relation.field`
SortCalls(model, entries) ==
    IF entries = <<>> THEN <<>>
    ELSE LET e == Head(entries)
             col == PathColumn(model, e[2])
         IN  (IF HasDot(e[2]) THEN <<QueryCall("join", col[1], "", "")>> ELSE <<>>)
             \o <<QueryCall("order_by", col[1], col[2], IF e[1] = "+" THEN "asc" ELSE "desc")>>
             \o SortCalls(model, Tail(entries))

\* C21: when the ordering step has run over a sort, the calls on the query
\* are the filter call and then, pair by pair, for a path `relation.field` a
\* join against the model the relation leads to followed by the order_by on
\* that model's field, and for a path without a separator the order_by on
\* the queried model's field with no join.
C21_JoinBeforeOrderBy ==
    (pc = "group" /\ Truthy(sort) /\ ~ignore_order_by) =>
        /\ query.calls = <<QueryCall("filter", mclass, "", "")>> \o SortCalls(mclass, sort.list)
        /\ \A i \in DOMAIN sort.list :
              HasDot(sort.list[i][2]) =>
                  PathColumn(mclass, sort.list[i][2])[1] =
                      Schema[mclass][SplitPath(sort.list[i][2])[1]].target

\* the ordering step has run over -comments.content, +name: a join against
\* Comment, the order_by on Comment.content, then the order_by on Person.name
C21_Witness ==
    /\ pc = "group"
    /\ ~ignore_order_by
    /\ sort = ListV(<< <<"-", "comments.content">>, <<"+", "name">> >>)
    /\ query.calls = << QueryCall("filter", Person, "", ""),
                        QueryCall("join", Comment, "", ""),
                        QueryCall("order_by", Comment, "content", "desc"),
                        QueryCall("order_by", Person, "name", "asc") >>

RECURSIVE GroupCalls(_, _)
\* the calls a group_by stands for: for each path one group_by on the column
\* of the path, preceded by a join when the path is `relation.field`
GroupCalls(model, names) ==
    IF names = <<>> THEN <<>>
    ELSE LET col == PathColumn(model, Head(names))
         IN  (IF HasDot(Head(names)) THEN <<QueryCall("join", col[1], "", "")>> ELSE <<>>)
             \o <<QueryCall("group_by", col[1], col[2], "")>>
             \o GroupCalls(model, Tail(names))

\* C22: the calls on a returned query end with the calls of its group_by
\* list: one group_by per path in the order given, on the column a sort
\* path of the same name stands for, a relation path preceded by a join; no
\* group_by call is made before them, and none at all when group_by is None
\* or empty.
C22_GroupByPerPath ==
    pc = "returned" =>
        LET g == IF Truthy(group_by) THEN GroupCalls(mclass, group_by.list) ELSE <<>>
            n == Len(query.calls)
        IN  /\ n > Len(g)
            /\ SubSeq(query.calls, n - Len(g) + 1, n) = g
            /\ \A i \in 1 .. (n - Len(g)) : query.calls[i].call # "group_by"
            /\ Len(CallsOf(query, "group_by")) =
                  (IF Truthy(group_by) THEN Len(group_by.list) ELSE 0)

\* a query grouped by comments.content and name has been returned: a join
\* against Comment, the group_by on Comment.content, the group_by on
\* Person.name
C22_Witness ==
    /\ pc = "returned"
    /\ group_by = ListV(<<"comments.content", "name">>)
    /\ Len(query.calls) >= 3
    /\ SubSeq(query.calls, Len(query.calls) - 2, Len(query.calls)) =
          << QueryCall("join", Comment, "", ""),
             QueryCall("group_by", Comment, "content", ""),
             QueryCall("group_by", Person, "name", "") >>

(***************************************************************************)
(* C23: search with single.                                                *)
(***************************************************************************)
\* the entities the composed query selects
Selected == Matches(mclass, query.criteria)

\* C23: when search was called with single, it returns the entity the query
\* selects when the query selects exactly one, raises NoResultFound when it
\* selects none and MultipleResultsFound when it selects two or more; it
\* returns no entity in these two cases. Without single it returns the query.
C23_SingleResult ==
    /\ (pc \in {"search_returned", "search_raised"} /\ single) =>
          /\ Cardinality(Selected) = 1 =>
                (pc = "search_returned" /\ result.ret = "one" /\ result.row \in Selected)
          /\ Selected = {} =>
                (pc = "search_raised" /\ raised = NoResultFound /\ result = NoResult)
          /\ Cardinality(Selected) > 1 =>
                (pc = "search_raised" /\ raised = MultipleResultsFound /\ result = NoResult)
    /\ (pc \in {"search_returned", "search_raised"} /\ ~single) =>
          (pc = "search_returned" /\ result = Results(query))

\* search with single and the filter name eq "B" has returned the person of
\* that name
C23_Witness ==
    /\ pc = "search_returned"
    /\ single
    /\ filters = ListV(<<Leaf("name", "eq", StrV("B"), Absent)>>)
    /\ result = Entity([id |-> IntV(4), name |-> StrV("B"), age |-> NULL, birthday |-> DateV(1)])

(***************************************************************************)
(* C24, C25: failures of create_query.                                     *)
(***************************************************************************)
\* what parsing and compiling each filter of the request by itself yields
FilterOutcomes == [i \in DOMAIN filters.list |-> CompileDict(mclass, filters.list[i])]
\* some filter of the request fails to parse, to coerce or to compile
SomeFilterFails ==
    /\ pc # "idle"
    /\ filters.t = "list"
    /\ \E i \in DOMAIN filters.list : ~IsOk(FilterOutcomes[i])

\* C24: when some filter of the request fails by itself, the call gets no
\* further than the parsing and the compiling and ends raised with the error
\* of one of the failing filters; at no moment has a filter, join, order_by
\* or group_by been applied to the query, no query is returned by
\* create_query and nothing by search.
C24_NoPartialQuery ==
    SomeFilterFails =>
        /\ pc \in {"parse", "compile", "raised"}
        /\ query.criteria = <<>>
        /\ query.calls = <<>>
        /\ result = NoResult
        /\ pc = "raised" =>
              /\ query = NoQuery
              /\ \E i \in DOMAIN filters.list :
                    ~IsOk(FilterOutcomes[i]) /\ raised = FilterOutcomes[i].exc

\* a request of a valid filter followed by one with an unparsable date has
\* ended raised, with no query
C24_Witness ==
    /\ pc = "raised"
    /\ filters = ListV(<<Leaf("age", "gt", IntV(0), Absent),
                        Leaf("birthday", "eq", StrV("bogus"), Absent)>>)
    /\ raised = DateTimeParseError
    /\ query = NoQuery
    /\ result = NoResult

\* the error kinds of the operator registry, of the value coercion and of
\* the field resolver
RegistryKinds ==
    {UnknownOperatorError, ArityMismatchError, ComparisonToNull, DateTimeParseError,
     UnknownFieldError}

\* C25: whenever create_query raises, the exception is an unknown operator,
\* an arity mismatch, a comparison to null, a date/time parse error or an
\* unknown field, also when a field path holds the delimiter twice and when
\* has/any is applied to a field that is no relationship.
C25_OnlyRegistryKinds ==
    pc = "raised" => raised \in RegistryKinds

(***************************************************************************)
(* C26: concurrent calls.                                                  *)
(***************************************************************************)
\* the call has ended
Ended(i) == i.pc \in {"raised", "search_raised", "search_returned"}
\* what the call has ended with
Outcome(i) == IF i.pc \in {"raised", "search_raised"} THEN Raise(i.raised) ELSE Ok(i.result)
\* what the call with the arguments a ends with when it runs alone
Alone(a) == search(a[1], a[2], a[3], a[4], a[6], a[5])

\* C26: however the steps of the concurrent calls interleave, a call that
\* has ended has returned or raised what the same call does alone; no step
\* changes the OPERATORS dictionary or the attributes of the model classes,
\* no step changes the arguments of a call that has been made or the Filter
\* objects a call has parsed, and a step of one call changes nothing of
\* another call.
C26_ConcurrentCallsIndependent ==
    /\ [](\A t \in Invocations : Ended(inv[t]) => Outcome(inv[t]) = Alone(inv[t].args))
    /\ [][/\ registry' = registry
          /\ metadata' = metadata
          /\ \A t \in Invocations : inv[t].pc # "idle" => inv'[t].args = inv[t].args
          /\ \A t \in Invocations :
                inv[t].pc \notin {"idle", "parse"} => inv'[t].parsed = inv[t].parsed
          /\ \A t, u \in Invocations :
                (inv'[t] # inv[t] /\ inv'[u] # inv[u]) => t = u]_cvars

\* the first call has returned its one entity while the second call, of
\* another request, stands between its parsing and its compiling
C26_Witness ==
    /\ inv[1].pc = "search_returned"
    /\ inv[1].args[6]
    /\ inv[1].result.ret = "one"
    /\ Ok(inv[1].result) = Alone(inv[1].args)
    /\ inv[2].pc = "compile"
    /\ inv[2].args # inv[1].args
    /\ registry = OPERATORS

(***************************************************************************)
(* C27: the shape of the parsed tree.                                      *)
(***************************************************************************)
RECURSIVE WellFormed(_)
\* a filter object of the wire format: a leaf with name, op and one of val
\* and field, or a junction with the one key "and" or "or" over a list of
\* filter objects
WellFormed(d) ==
    \/ DOMAIN d \in {{"name", "op", "val"}, {"name", "op", "field"}}
    \/ DOMAIN d = {"and"} /\ \A i \in DOMAIN d["and"] : WellFormed(d["and"][i])
    \/ DOMAIN d = {"or"} /\ \A i \in DOMAIN d["or"] : WellFormed(d["or"][i])

RECURSIVE Serialize(_)
\* the filter object a Filter tree stands for
Serialize(filt) ==
    CASE filt.cls = "ConjunctionFilter" ->
            "and" :> [i \in DOMAIN filt.subfilters |-> Serialize(filt.subfilters[i])]
      [] filt.cls = "DisjunctionFilter" ->
            "or" :> [i \in DOMAIN filt.subfilters |-> Serialize(filt.subfilters[i])]
      [] OTHER ->
            IF filt.otherfield # None
            THEN "name" :> filt.fieldname @@ "op" :> filt.operator
                 @@ "field" :> filt.otherfield
            ELSE "name" :> filt.fieldname @@ "op" :> filt.operator
                 @@ "val" :> filt.argument

RECURSIVE Coerced(_, _)
\* the filter object d with the val of every leaf coerced for its field
Coerced(m, d) ==
    IF HasKey(d, "and") THEN "and" :> [i \in DOMAIN d["and"] |-> Coerced(m, d["and"][i])]
    ELSE IF HasKey(d, "or") THEN "or" :> [i \in DOMAIN d["or"] |-> Coerced(m, d["or"][i])]
    ELSE IF HasKey(d, "val")
    THEN [d EXCEPT !["val"] = string_to_datetime(m, d["name"], d["val"]).val]
    ELSE d

\* C27: once the filters of a request are parsed there is one tree per
\* filter object, and the tree of a well-formed filter object serializes
\* back to that object with its values coerced: junctions of the same kind
\* with the same children in the same order, leaves with the same name, op
\* and field.
C27_ParseKeepsShape ==
    (pc \in {"compile", "filter", "order", "group", "returned", "search_returned",
             "search_raised"}) =>
        /\ Len(parsed) = Len(filters.list)
        /\ \A i \in DOMAIN parsed :
              WellFormed(filters.list[i]) =>
                  Serialize(parsed[i]) = Coerced(mclass, filters.list[i])

\* an "or" of two leaves has been parsed into a DisjunctionFilter of the two
\* Filter objects, in order
C27_Witness ==
    /\ pc = "compile"
    /\ filters = ListV(<<"or" :> <<Leaf("name", "eq", StrV("a"), Absent),
                                   Leaf("age", "gt", IntV(0), Absent)>> >>)
    /\ parsed = <<DisjunctionFilter(<<Filter("name", "eq", StrV("a"), None),
                                      Filter("age", "gt", IntV(0), None)>>)>>
    /\ Serialize(parsed[1]) = filters.list[1]

(***************************************************************************)
(* C28, C29: comparison to null, and the order of the checks of a leaf.    *)
(***************************************************************************)
\* the request is one leaf on an existing field, with a known operator and
\* no compare-to field, whose argument is null once coerced: val is left
\* out, is null, or is the empty string on a date field
NullAfterCoercion ==
    /\ SingleLeaf
    /\ HasKey(TheFilter, "name") /\ HasAttr(mclass, TheFilter.name)
    /\ HasKey(TheFilter, "op") /\ TheFilter.op \in DOMAIN OPERATORS
    /\ ~HasKey(TheFilter, "field")
    /\ \/ ~HasKey(TheFilter, "val")
       \/ TheFilter.val = NULL
       \/ TheFilter.val = StrV("") /\ IsTemporal(mclass, TheFilter.name)

CheckedLeaf ==
    /\ SingleLeaf
    /\ HasKey(TheFilter, "name")
    /\ Len(SplitName(TheFilter.name)) <= 2
    /\ IsOk(from_dictionary(mclass, TheFilter))
\* the operator of the leaf is not in OPERATORS
DefectOperator == ~HasKey(TheFilter, "op") \/ TheFilter.op \notin DOMAIN OPERATORS
\* the argument of the leaf is null where the operator takes one
DefectNull ==
    /\ ~DefectOperator
    /\ OPERATORS[TheFilter.op].numargs \in {2, 3}
    /\ ~HasKey(TheFilter, "field")
    /\ from_dictionary(mclass, TheFilter).val.argument = NULL
\* the error the order of the checks gives a leaf: compare-to field,
\* operator, left-hand field or relation, null argument
FirstDefect ==
    IF UnknownOther(mclass, TheFilter) THEN UnknownFieldError
    ELSE IF DefectOperator THEN UnknownOperatorError
    ELSE IF UnknownLeft(mclass, TheFilter) THEN UnknownFieldError
    ELSE IF DefectNull THEN ComparisonToNull
    ELSE None

\* C29: a leaf with one or several of the defects unknown compare-to field,
\* unknown operator, unknown left-hand field or relation and null argument
\* ends raised with the error of the first of them in this order.
C29_ErrorByOrderOfChecks ==
    (Done /\ CheckedLeaf /\ FirstDefect # None) =>
        (pc = "raised" /\ raised = FirstDefect)

\* an unknown operator on a field the model does not have, with a null
\* argument, has ended raised with the error of the unknown operator
C29_Witness ==
    /\ pc = "raised"
    /\ filters = ListV(<<Leaf("foo", "bogus", NULL, Absent)>>)
    /\ UnknownLeft(mclass, TheFilter)
    /\ DefectOperator
    /\ raised = UnknownOperatorError

(***************************************************************************)
(* C30: filters left at its default.                                       *)
(***************************************************************************)
\* C30: a call of search with filters None ends as the call with the empty
\* list of filters and the same other arguments does: it raises nothing in
\* create_query and returns the query of every entity of the model, ordered
\* and grouped as asked (or the one entity with single).
C30_NoneFiltersLikeEmptyList ==
    (filters = NULL /\ pc \in {"raised", "search_returned", "search_raised"}) =>
        /\ pc # "raised"
        /\ (IF pc = "search_raised" THEN Raise(raised) ELSE Ok(result)) =
              search(mclass, ListV(<<>>), sort, group_by, single, ignore_order_by)

====
